---- MODULE Spec2Model ----
(***************************************************************************)
(* Storage control: the warehouse placement engine of src/warehouse.rs,    *)
(* the item constructor of src/product.rs and the storage front end of     *)
(* src/inventory.rs, as a state machine.                                   *)
(*                                                                         *)
(* The warehouse is the tree Warehouse -> Row -> Shelf -> Level -> Zone.   *)
(* The structure is built once (initialize_rows) and never resized, so the *)
(* `number` of every node equals its 1-based index in its parent's vector  *)
(* and lookups by number are lookups by index.                             *)
(*                                                                         *)
(* Rust strings and vectors are indexed from 0, TLA+ sequences from 1: a   *)
(* flat map is a sequence of 0/1 and the character at Rust index i is      *)
(* map[i + 1].                                                             *)
(*                                                                         *)
(* A usize counter is kept as an integer representative of its residue     *)
(* modulo 2^64: a negative value k stands for 2^64 + k.  With overflow     *)
(* checks (debug profile) a subtraction below zero panics, without them    *)
(* (release profile) it wraps.                                             *)
(***************************************************************************)
EXTENDS Integers, Sequences, FiniteSets, TLC

\* ------------------------------------------------------------------ bounds
\* Dimensions of the warehouse (initialize_rows arguments).
NumRows == 2
NumShelves == 2
NumLevels == 2
NumZones == 5
\* Largest quantity of one restock / remove_stock call.
MaxQty == 3
\* Number of front-end calls in one run.
MaxOps == 3
\* Number of calls in one run of batches of a single product.
MaxBatchOps == 5
\* Number of calls in one run that fills the warehouse.
MaxFillOps == 2
\* Number of calls in one run through the storage front end.
MaxStorageOps == 2
\* Largest number of days asked of the expiring-items listing.
MaxDays == 1
\* Number of calls in one run with the Crate in the catalog.
MaxCrateOps == 2

\* ------------------------------------------------------------------ catalog
\* Quality variants of src/product.rs.
Normal == [tag |-> "Normal", zones_required |-> 1, max_level |-> 0]
Fragile(m) == [tag |-> "Fragile", zones_required |-> 1, max_level |-> m]
Oversized(n) == [tag |-> "Oversized", zones_required |-> n, max_level |-> 0]
OversizedAndFragile(n, m) == [tag |-> "OversizedAndFragile", zones_required |-> n, max_level |-> m]

\* The listed products: id -> quality.
Apple == 1
Banana == 2
Watermelon == 3
Melon == 4
\* A product added to the catalog whose span is one zone longer than a level.
Crate == 5
ProductIds == {Apple, Banana, Watermelon, Melon}
quality(id) ==
  CASE id = Apple -> Normal
    [] id = Banana -> Fragile(1)
    [] id = Watermelon -> Oversized(2)
    [] id = Melon -> OversizedAndFragile(2, 1)
    [] id = Crate -> Oversized(NumZones + 1)

IsOversized(q) == q.tag \in {"Oversized", "OversizedAndFragile"}
IsFragile(q) == q.tag \in {"Fragile", "OversizedAndFragile"}

\* Option<usize>: 0 stands for None (a ceiling is a level number >= 1).
NoLevel == 0
Product_max_level(id) == IF IsFragile(quality(id)) THEN quality(id).max_level ELSE NoLevel

\* Option<NaiveDate>: 0 stands for None, a date is the integer yyyymmdd.
NoDate == 0
Dates == {20211231, 20221231}
FarFuture == 99991231

\* ------------------------------------------------------------------ items and zones
NoItem == [id |-> 0, placement |-> <<0, 0, 0, 0>>, zones_required |-> 0, expiry_date |-> NoDate]

Vacant == [kind |-> "None", item |-> NoItem, start |-> 0, end |-> 0]
WholeProduct(item) == [kind |-> "WholeProduct", item |-> item, start |-> 0, end |-> 0]
ProductStart(item, e) == [kind |-> "ProductStart", item |-> item, start |-> 0, end |-> e]
ProductPart(s, e) == [kind |-> "ProductPart", item |-> NoItem, start |-> s, end |-> e]
ProductEnd(s) == [kind |-> "ProductEnd", item |-> NoItem, start |-> s, end |-> 0]

VARIABLES
  warehouse,   \* the Warehouse tree
  strategy,    \* Warehouse.strategy
  list,        \* ProductList: id -> Product.quantity
  overflow_checks, \* TRUE: arithmetic overflow panics; FALSE: it wraps
  last,        \* the last call made and what it returned
  calls        \* number of calls made so far

vars == <<warehouse, strategy, list, overflow_checks, last, calls>>

\* ------------------------------------------------------------------ usize
\* a - b on usize: panics under overflow checks when b > a, wraps otherwise.
SubPanics(a, b) == overflow_checks /\ a >= 0 /\ a - b < 0
\* a + b on usize: wraps past 2^64 - 1 back to small values.
AddPanics(a, b) == overflow_checks /\ a < 0 /\ a + b >= 0

\* ------------------------------------------------------------------ Zone
Zone_is_empty(zone) == zone.kind = "None"

Zone_add(zone, item) ==
  IF zone.kind # "None" THEN [zone |-> zone, res |-> "ZoneOccupied"]
  ELSE [zone |-> WholeProduct(item), res |-> "Ok"]

Zone_remove(zone) ==
  IF zone.kind = "None" THEN [zone |-> zone, res |-> "ZoneEmpty"]
  ELSE IF zone.kind = "WholeProduct" THEN [zone |-> Vacant, res |-> "Ok"]
  ELSE [zone |-> zone, res |-> "CannotRemovePart"]

\* ------------------------------------------------------------------ Level
HasZone(level, zone_number) == zone_number >= 1 /\ zone_number <= Len(level.zones)

Level_flat_map(level) ==
  [i \in 1..Len(level.zones) |-> IF Zone_is_empty(level.zones[i]) THEN 0 ELSE 1]

\* map[index..index + n] == "0".repeat(n)
AllVacant(map, index, n) == \A k \in 1..n : map[index + k] = 0

Marker(n) == <<1>> \o [k \in 1..(n - 1) |-> 0]

RECURSIVE OversizedScan(_, _, _, _)
OversizedScan(map, n, index, acc) ==
  IF index + n < Len(map)
  THEN IF AllVacant(map, index, n)
       THEN OversizedScan(map, n, index + n, acc \o Marker(n))
       ELSE OversizedScan(map, n, index + 1, Append(acc, map[index + 1]))
  ELSE acc

Level_oversized_flat_map(level, zones_required) ==
  OversizedScan(Level_flat_map(level), zones_required, 0, <<>>)

\* Option<usize>: -1 stands for None.
NoPos == -1
Level_flat_map_position_to_zone(level, position) ==
  IF position < Len(level.zones) THEN position ELSE NoPos

Level_oversized_flat_map_position_to_zone(level, position, zones_required) ==
  IF position < Len(level.zones) - zones_required THEN position ELSE NoPos

Level_check_capacity(level) == Len(level.zones)
Level_check_oversized_capacity(level, zones_required) == Len(level.zones) \div zones_required
Level_is_full(level) == level.available_space = 0

Level_add_item(level, zone_number, item) ==
  IF ~HasZone(level, zone_number) THEN [level |-> level, res |-> "ZoneNotFound"]
  ELSE LET r == Zone_add(level.zones[zone_number], item) IN
       IF r.res # "Ok" THEN [level |-> level, res |-> r.res]
       ELSE IF SubPanics(level.available_space, 1) THEN [level |-> level, res |-> "Panic"]
       ELSE [level |-> [level EXCEPT !.zones[zone_number] = r.zone,
                                     !.available_space = @ - 1],
             res |-> "Ok"]

Level_remove_item(level, zone_number) ==
  IF ~HasZone(level, zone_number) THEN [level |-> level, res |-> "ZoneNotFound"]
  ELSE LET r == Zone_remove(level.zones[zone_number]) IN
       IF r.res # "Ok" THEN [level |-> level, res |-> r.res]
       ELSE IF AddPanics(level.available_space, 1) THEN [level |-> level, res |-> "Panic"]
       ELSE [level |-> [level EXCEPT !.zones[zone_number] = r.zone,
                                     !.available_space = @ + 1],
             res |-> "Ok"]

\* The loop `for i in zone_number..=last_zone` over map.chars().nth(i).unwrap():
\* the first i that is out of the map panics, the first i that is '1' fails.
RECURSIVE FitsFrom(_, _, _)
FitsFrom(map, i, last_zone) ==
  IF i > last_zone THEN "Ok"
  ELSE IF i >= Len(map) THEN "Panic"
  ELSE IF map[i + 1] = 1 THEN "ZoneOccupied"
  ELSE FitsFrom(map, i + 1, last_zone)

\* check_if_fits without its two bounds checks.
Level_check_if_fits_unbounded(level, zone_number, zones_required) ==
  FitsFrom(Level_flat_map(level), zone_number, zone_number + zones_required - 1)

Level_check_if_fits(level, zone_number, zones_required) ==
  LET map == Level_flat_map(level)
      last_zone == zone_number + zones_required - 1
  IN IF zone_number > Len(map) THEN "ZoneNotFound"
     ELSE IF last_zone > Len(map) THEN "InsufficientSpace"
     ELSE FitsFrom(map, zone_number, last_zone)

Level_add_oversized_item(level, zone_number, item) ==
  LET zones_required == item.zones_required
      fits == Level_check_if_fits(level, zone_number, zones_required)
      last_zone == zone_number + zones_required - 1
      written == [i \in 1..Len(level.zones) |->
                    IF i = last_zone THEN ProductEnd(zone_number)
                    ELSE IF i > zone_number /\ i < last_zone THEN ProductPart(zone_number, last_zone)
                    ELSE IF i = zone_number THEN ProductStart(item, last_zone)
                    ELSE level.zones[i]]
  IN IF fits # "Ok" THEN [level |-> level, res |-> fits]
     ELSE IF ~HasZone(level, zone_number) THEN [level |-> level, res |-> "ZoneNotFound"]
     ELSE IF SubPanics(level.available_space, zones_required)
          THEN [level |-> level, res |-> "Panic"]
     ELSE [level |-> [level EXCEPT !.zones = written,
                                   !.available_space = @ - zones_required],
           res |-> "Ok"]

\* Option<(usize, usize)>: <<0, 0>> stands for None (a start zone is >= 1).
Level_get_oversized_range(level, zone_number) ==
  IF HasZone(level, zone_number) /\ level.zones[zone_number].kind = "ProductStart"
  THEN <<zone_number, level.zones[zone_number].end>>
  ELSE <<0, 0>>

Level_remove_oversized_item(level, zone_number) ==
  LET range == Level_get_oversized_range(level, zone_number)
      start == range[1]
      end == range[2]
  IN IF range = <<0, 0>> THEN [level |-> level, res |-> "NoProductFound"]
     ELSE IF AddPanics(level.available_space, end - start + 1)
          THEN [level |-> level, res |-> "Panic"]
     ELSE [level |-> [level EXCEPT
                        !.zones = [i \in 1..Len(level.zones) |->
                                     IF i >= start /\ i <= end THEN Vacant ELSE level.zones[i]],
                        !.available_space = @ + (end - start + 1)],
           res |-> "Ok"]

\* zones.iter().position(is_empty): 0-based index, NoPos for None.
Level_find_vacant_zone(level) ==
  LET free == {i \in 1..Len(level.zones) : Zone_is_empty(level.zones[i])}
  IN IF free = {} THEN NoPos ELSE (CHOOSE i \in free : \A j \in free : i <= j) - 1

Level_find_oversized_vacant_zone(level, zones_required) ==
  LET map == Level_flat_map(level)
      fit == {index \in 0..Len(map) : index + zones_required <= Len(map)
                                      /\ AllVacant(map, index, zones_required)}
  IN IF fit = {} THEN NoPos ELSE CHOOSE i \in fit : \A j \in fit : i <= j

\* Option<&ProductItem>: NoItem stands for None.
Level_item(level, zone_number) ==
  IF ~HasZone(level, zone_number) THEN NoItem
  ELSE LET zone == level.zones[zone_number] IN
       CASE zone.kind = "WholeProduct" -> zone.item
         [] zone.kind = "ProductStart" -> zone.item
         [] zone.kind \in {"ProductPart", "ProductEnd"} ->
              IF HasZone(level, zone.start) /\ level.zones[zone.start].kind = "ProductStart"
              THEN level.zones[zone.start].item
              ELSE NoItem
         [] OTHER -> NoItem

Level_items(level) ==
  SelectSeq([i \in 1..Len(level.zones) |-> level.zones[i].item],
            LAMBDA it : it # NoItem)

\* ------------------------------------------------------------------ Shelf
HasLevel(shelf, level_number) == level_number >= 1 /\ level_number <= Len(shelf.levels)

RECURSIVE Concat(_)
Concat(seqs) == IF seqs = <<>> THEN <<>> ELSE Head(seqs) \o Concat(Tail(seqs))

RECURSIVE SumSeq(_)
SumSeq(ns) == IF ns = <<>> THEN 0 ELSE Head(ns) + SumSeq(Tail(ns))

Shelf_flat_map(shelf) ==
  Concat([l \in 1..Len(shelf.levels) |-> Level_flat_map(shelf.levels[l])])

Shelf_oversized_flat_map(shelf, zones_required) ==
  Concat([l \in 1..Len(shelf.levels) |-> Level_oversized_flat_map(shelf.levels[l], zones_required)])

Shelf_check_capacity(shelf) ==
  SumSeq([l \in 1..Len(shelf.levels) |-> Level_check_capacity(shelf.levels[l])])

Shelf_check_oversized_capacity(shelf, zones_required) ==
  SumSeq([l \in 1..Len(shelf.levels) |->
            Level_check_oversized_capacity(shelf.levels[l], zones_required)])

Shelf_is_full(shelf) == shelf.available_space = 0

\* Option<(..)> of coordinates: the empty tuple stands for None.
NoCoord == <<>>

\* Option::map(|rest| (number, rest..)) on a coordinate
Prefix(number, rest) == IF rest = NoCoord THEN NoCoord ELSE <<number>> \o rest

\* Option<usize> as the tail of a coordinate
Single(zone_index) == IF zone_index = NoPos THEN NoCoord ELSE <<zone_index>>

\* The loop over levels with cumulative_capacity, entered at level_index (0-based).
RECURSIVE ShelfPositionWalk(_, _, _, _)
ShelfPositionWalk(shelf, position, level_index, cumulative_capacity) ==
  IF level_index >= Len(shelf.levels) THEN NoCoord
  ELSE IF position < cumulative_capacity + Level_check_capacity(shelf.levels[level_index + 1])
  THEN Prefix(level_index + 1,
              Single(Level_flat_map_position_to_zone(shelf.levels[level_index + 1],
                                                     position - cumulative_capacity)))
  ELSE ShelfPositionWalk(shelf, position, level_index + 1,
                         cumulative_capacity
                           + Level_check_capacity(shelf.levels[level_index + 1]))

Shelf_flat_map_position_to_zone(shelf, position) == ShelfPositionWalk(shelf, position, 0, 0)

RECURSIVE ShelfOversizedPositionWalk(_, _, _, _, _)
ShelfOversizedPositionWalk(shelf, position, zones_required, level_index, cumulative_capacity) ==
  LET level_capacity ==
        IF level_index < Len(shelf.levels)
        THEN Level_check_capacity(shelf.levels[level_index + 1]) ELSE 0
  IN IF level_index >= Len(shelf.levels) THEN NoCoord
     ELSE IF position < cumulative_capacity + level_capacity
     THEN Prefix(level_index + 1,
                 Single(Level_oversized_flat_map_position_to_zone(
                        shelf.levels[level_index + 1],
                        IF position < cumulative_capacity + level_capacity - zones_required
                        THEN position - cumulative_capacity ELSE 1,
                        zones_required)))
     ELSE ShelfOversizedPositionWalk(shelf, position, zones_required, level_index + 1,
                                     cumulative_capacity + level_capacity)

Shelf_oversized_flat_map_position_to_zone(shelf, position, zones_required) ==
  ShelfOversizedPositionWalk(shelf, position, zones_required, 0, 0)

Shelf_find_vacant_zone(shelf) ==
  LET found == {l \in 1..Len(shelf.levels) : Level_find_vacant_zone(shelf.levels[l]) # NoPos}
  IN IF found = {} THEN NoCoord
     ELSE LET l == CHOOSE i \in found : \A j \in found : i <= j
          IN <<l, Level_find_vacant_zone(shelf.levels[l]) + 1>>

Shelf_find_oversized_vacant_zone(shelf, zones_required) ==
  LET found == {l \in 1..Len(shelf.levels) :
                  Level_find_oversized_vacant_zone(shelf.levels[l], zones_required) # NoPos}
  IN IF found = {} THEN NoCoord
     ELSE LET l == CHOOSE i \in found : \A j \in found : i <= j
          IN <<l, Level_find_oversized_vacant_zone(shelf.levels[l], zones_required) + 1>>

Shelf_item(shelf, level_number, zone_number) ==
  IF HasLevel(shelf, level_number) THEN Level_item(shelf.levels[level_number], zone_number)
  ELSE NoItem

Shelf_items(shelf) == Concat([l \in 1..Len(shelf.levels) |-> Level_items(shelf.levels[l])])

Shelf_add_item(shelf, level_number, zone_number, item) ==
  LET Added(r) ==
        IF r.res # "Ok" THEN [shelf |-> shelf, res |-> r.res]
        ELSE IF SubPanics(shelf.available_space, 1) THEN [shelf |-> shelf, res |-> "Panic"]
        ELSE [shelf |-> [shelf EXCEPT !.levels[level_number] = r.level,
                                      !.available_space = @ - 1],
              res |-> "Ok"]
  IN IF ~HasLevel(shelf, level_number) THEN [shelf |-> shelf, res |-> "LevelNotFound"]
     ELSE Added(Level_add_item(shelf.levels[level_number], zone_number, item))

Shelf_remove_item(shelf, level_number, zone_number) ==
  LET Removed(r) ==
        IF r.res # "Ok" THEN [shelf |-> shelf, res |-> r.res]
        ELSE IF AddPanics(shelf.available_space, 1) THEN [shelf |-> shelf, res |-> "Panic"]
        ELSE [shelf |-> [shelf EXCEPT !.levels[level_number] = r.level,
                                      !.available_space = @ + 1],
              res |-> "Ok"]
  IN IF ~HasLevel(shelf, level_number) THEN [shelf |-> shelf, res |-> "LevelNotFound"]
     ELSE Removed(Level_remove_item(shelf.levels[level_number], zone_number))

Shelf_add_oversized_item(shelf, level_number, zone_number, item) ==
  LET Added(r) ==
        IF r.res # "Ok" THEN [shelf |-> shelf, res |-> r.res]
        ELSE IF SubPanics(shelf.available_space, item.zones_required)
             THEN [shelf |-> shelf, res |-> "Panic"]
        ELSE [shelf |-> [shelf EXCEPT !.levels[level_number] = r.level,
                                      !.available_space = @ - item.zones_required],
              res |-> "Ok"]
  IN IF ~HasLevel(shelf, level_number) THEN [shelf |-> shelf, res |-> "LevelNotFound"]
     ELSE Added(Level_add_oversized_item(shelf.levels[level_number], zone_number, item))

Shelf_remove_oversized_item(shelf, level_number, zone_number) ==
  LET Removed(item, r) ==
        IF r.res # "Ok" THEN [shelf |-> shelf, res |-> r.res]
        ELSE IF AddPanics(shelf.available_space, item.zones_required)
             THEN [shelf |-> shelf, res |-> "Panic"]
        ELSE [shelf |-> [shelf EXCEPT !.levels[level_number] = r.level,
                                      !.available_space = @ + item.zones_required],
              res |-> "Ok"]
  IN IF Shelf_item(shelf, level_number, zone_number) = NoItem
     THEN [shelf |-> shelf, res |-> "NoProductFound"]
     ELSE IF ~HasLevel(shelf, level_number) THEN [shelf |-> shelf, res |-> "LevelNotFound"]
     ELSE Removed(Shelf_item(shelf, level_number, zone_number),
                  Level_remove_oversized_item(shelf.levels[level_number], zone_number))

\* ------------------------------------------------------------------ Row (tree part)
HasShelf(row, shelf_number) == shelf_number >= 1 /\ shelf_number <= Len(row.shelves)

Row_flat_map(row) ==
  Concat([s \in 1..Len(row.shelves) |-> Shelf_flat_map(row.shelves[s])])

Row_oversized_flat_map(row, zones_required) ==
  Concat([s \in 1..Len(row.shelves) |-> Shelf_oversized_flat_map(row.shelves[s], zones_required)])

Row_check_capacity(row) ==
  SumSeq([s \in 1..Len(row.shelves) |-> Shelf_check_capacity(row.shelves[s])])

Row_check_oversized_capacity(row, zones_required) ==
  SumSeq([s \in 1..Len(row.shelves) |->
            Shelf_check_oversized_capacity(row.shelves[s], zones_required)])

RECURSIVE RowPositionWalk(_, _, _, _)
RowPositionWalk(row, position, shelf_index, cumulative_capacity) ==
  IF shelf_index >= Len(row.shelves) THEN NoCoord
  ELSE IF position < cumulative_capacity + Shelf_check_capacity(row.shelves[shelf_index + 1])
  THEN Prefix(shelf_index + 1,
              Shelf_flat_map_position_to_zone(row.shelves[shelf_index + 1],
                                              position - cumulative_capacity))
  ELSE RowPositionWalk(row, position, shelf_index + 1,
                       cumulative_capacity
                         + Shelf_check_capacity(row.shelves[shelf_index + 1]))

Row_flat_map_position_to_zone(row, position) == RowPositionWalk(row, position, 0, 0)

RECURSIVE RowOversizedPositionWalk(_, _, _, _, _)
RowOversizedPositionWalk(row, position, zones_required, shelf_index, cumulative_capacity) ==
  LET shelf_capacity ==
        IF shelf_index < Len(row.shelves)
        THEN Shelf_check_capacity(row.shelves[shelf_index + 1]) ELSE 0
  IN IF shelf_index >= Len(row.shelves) THEN NoCoord
     ELSE IF position < cumulative_capacity + shelf_capacity
     THEN Prefix(shelf_index + 1,
                 Shelf_oversized_flat_map_position_to_zone(
                   row.shelves[shelf_index + 1],
                   IF position < cumulative_capacity + shelf_capacity - zones_required
                   THEN position - cumulative_capacity ELSE 1,
                   zones_required))
     ELSE RowOversizedPositionWalk(row, position, zones_required, shelf_index + 1,
                                   cumulative_capacity + shelf_capacity)

Row_oversized_flat_map_position_to_zone(row, position, zones_required) ==
  RowOversizedPositionWalk(row, position, zones_required, 0, 0)

Row_item(row, shelf_number, level_number, zone_number) ==
  IF HasShelf(row, shelf_number)
  THEN Shelf_item(row.shelves[shelf_number], level_number, zone_number)
  ELSE NoItem

Row_items(row) == Concat([s \in 1..Len(row.shelves) |-> Shelf_items(row.shelves[s])])

Row_add_item(row, shelf_number, level_number, zone_number, item) ==
  LET Added(r) ==
        IF r.res # "Ok" THEN [row |-> row, res |-> r.res]
        ELSE IF SubPanics(row.available_space, 1) THEN [row |-> row, res |-> "Panic"]
        ELSE [row |-> [row EXCEPT !.shelves[shelf_number] = r.shelf,
                                  !.available_space = @ - 1],
              res |-> "Ok"]
  IN IF ~HasShelf(row, shelf_number) THEN [row |-> row, res |-> "ShelfNotFound"]
     ELSE Added(Shelf_add_item(row.shelves[shelf_number], level_number, zone_number, item))

Row_add_oversized_item(row, shelf_number, level_number, zone_number, item) ==
  LET Added(r) ==
        IF r.res # "Ok" THEN [row |-> row, res |-> r.res]
        ELSE IF SubPanics(row.available_space, item.zones_required)
             THEN [row |-> row, res |-> "Panic"]
        ELSE [row |-> [row EXCEPT !.shelves[shelf_number] = r.shelf,
                                  !.available_space = @ - item.zones_required],
              res |-> "Ok"]
  IN IF ~HasShelf(row, shelf_number) THEN [row |-> row, res |-> "ShelfNotFound"]
     ELSE Added(Shelf_add_oversized_item(row.shelves[shelf_number], level_number,
                                         zone_number, item))

Row_remove_item(row, shelf_number, level_number, zone_number) ==
  LET Removed(r) ==
        IF r.res # "Ok" THEN [row |-> row, res |-> r.res]
        ELSE IF AddPanics(row.available_space, 1) THEN [row |-> row, res |-> "Panic"]
        ELSE [row |-> [row EXCEPT !.shelves[shelf_number] = r.shelf,
                                  !.available_space = @ + 1],
              res |-> "Ok"]
  IN IF ~HasShelf(row, shelf_number) THEN [row |-> row, res |-> "ShelfNotFound"]
     ELSE Removed(Shelf_remove_item(row.shelves[shelf_number], level_number, zone_number))

Row_remove_oversized_item(row, shelf_number, level_number, zone_number) ==
  LET Removed(item, r) ==
        IF r.res # "Ok" THEN [row |-> row, res |-> r.res]
        ELSE IF AddPanics(row.available_space, item.zones_required)
             THEN [row |-> row, res |-> "Panic"]
        ELSE [row |-> [row EXCEPT !.shelves[shelf_number] = r.shelf,
                                  !.available_space = @ + item.zones_required],
              res |-> "Ok"]
  IN IF Row_item(row, shelf_number, level_number, zone_number) = NoItem
     THEN [row |-> row, res |-> "NoProductFound"]
     ELSE IF ~HasShelf(row, shelf_number) THEN [row |-> row, res |-> "ShelfNotFound"]
     ELSE Removed(Row_item(row, shelf_number, level_number, zone_number),
                  Shelf_remove_oversized_item(row.shelves[shelf_number], level_number,
                                              zone_number))

\* ------------------------------------------------------------------ ProductItem
\* ProductItem::new without the check of the level against the ceiling.
ProductItem_new_any_level(id, products, placement, expiry_date) ==
  IF id \notin DOMAIN products
  THEN [item |-> NoItem, list |-> products, res |-> "ProductNotFound"]
  ELSE IF IsFragile(quality(id)) /\ expiry_date = NoDate
  THEN [item |-> NoItem, list |-> products, res |-> "FragileObjectWithoutExpiration"]
  ELSE [item |-> [id |-> id, placement |-> placement,
                  zones_required |-> quality(id).zones_required,
                  expiry_date |-> expiry_date],
        list |-> [products EXCEPT ![id] = @ + 1],
        res |-> "Ok"]

\* ProductItem::new: the checks of the product's quality, then add_quantity(1).
\* The timestamp field is written and never read; it is left out.
ProductItem_new(id, products, placement, expiry_date) ==
  LET q == quality(id)
      made == [item |-> [id |-> id, placement |-> placement,
                         zones_required |-> q.zones_required,
                         expiry_date |-> expiry_date],
               list |-> [products EXCEPT ![id] = @ + 1],
               res |-> "Ok"]
      failed(e) == [item |-> NoItem, list |-> products, res |-> e]
  IN IF id \notin DOMAIN products THEN failed("ProductNotFound")
     ELSE IF IsFragile(q) /\ expiry_date = NoDate THEN failed("FragileObjectWithoutExpiration")
     ELSE IF IsFragile(q) /\ placement[3] > q.max_level THEN failed("LevelTooHigh")
     ELSE made

\* ------------------------------------------------------------------ Row (sequential fill)
\* max_level.unwrap_or(levels)
UnwrapOr(max_level, levels) == IF max_level = NoLevel THEN levels ELSE max_level

\* The `while *qty > 0` loop of Row::add_qty at (shelf, level, zone).
RECURSIVE RowAddQtyLoop(_, _, _, _, _, _, _, _, _)
RowAddQtyLoop(row, row_number, id, products, qty, expiry_date, shelf, level, zone) ==
  LET Advance(row1, list1) ==
        LET zones == Len(row.shelves[shelf].levels[level].zones)
            levels == Len(row.shelves[shelf].levels)
            wrap_zone == zone + 1 > zones
            wrap_level == wrap_zone /\ level + 1 > UnwrapOr(Product_max_level(id), levels)
            zone1 == IF wrap_zone THEN 1 ELSE zone + 1
            level1 == IF wrap_level THEN 1 ELSE IF wrap_zone THEN level + 1 ELSE level
            shelf1 == IF wrap_level THEN shelf + 1 ELSE shelf
        IN IF wrap_level /\ shelf1 > Len(row.shelves)
           THEN [row |-> row1, list |-> list1, qty |-> qty - 1, res |-> "Ok"]
           ELSE RowAddQtyLoop(row1, row_number, id, list1, qty - 1, expiry_date,
                              shelf1, level1, zone1)
      Added(list1, added) ==
        IF added.res # "Ok"
        THEN [row |-> row, list |-> list1, qty |-> qty, res |-> added.res]
        ELSE Advance(added.row, list1)
      Created(new) ==
        IF new.res # "Ok" THEN [row |-> row, list |-> products, qty |-> qty, res |-> new.res]
        ELSE Added(new.list, Row_add_item(row, shelf, level, zone, new.item))
  IN IF qty = 0 THEN [row |-> row, list |-> products, qty |-> qty, res |-> "Ok"]
     ELSE Created(ProductItem_new(id, products, <<row_number, shelf, level, zone>>,
                                  expiry_date))

Row_add_qty(row, row_number, id, products, qty, expiry_date, start) ==
  LET From(shelf, level, zone) ==
        IF Product_max_level(id) # NoLevel /\ shelf > Len(row.shelves)
        THEN [row |-> row, list |-> products, qty |-> qty, res |-> "Ok"]
        ELSE RowAddQtyLoop(row, row_number, id, products, qty, expiry_date, shelf, level, zone)
      Start(too_high) ==
        From(IF too_high THEN start[1] + 1 ELSE start[1],
             IF too_high THEN 1 ELSE start[2],
             IF too_high THEN 1 ELSE start[3])
  IN IF id \notin DOMAIN products
     THEN [row |-> row, list |-> products, qty |-> qty, res |-> "ProductNotListed"]
     ELSE Start(Product_max_level(id) # NoLevel /\ start[2] > Product_max_level(id))

\* The `while *qty > 0` loop of Row::add_oversized_qty.
RECURSIVE RowAddOversizedQtyLoop(_, _, _, _, _, _, _, _, _, _)
RowAddOversizedQtyLoop(row, row_number, id, products, qty, expiry_date, zones_required,
                       shelf, level, zone) ==
  LET Advance(row1, list1) ==
        LET zones == Len(row.shelves[shelf].levels[level].zones)
            levels == Len(row.shelves[shelf].levels)
            wrap_zone == zone + zones_required > zones - zones_required
            wrap_level == wrap_zone /\ level + 1 > UnwrapOr(Product_max_level(id), levels)
            zone1 == IF wrap_zone THEN 1 ELSE zone + zones_required
            level1 == IF wrap_level THEN 1 ELSE IF wrap_zone THEN level + 1 ELSE level
            shelf1 == IF wrap_level THEN shelf + 1 ELSE shelf
        IN IF wrap_level /\ shelf1 > Len(row.shelves)
           THEN [row |-> row1, list |-> list1, qty |-> qty - 1, res |-> "Ok"]
           ELSE RowAddOversizedQtyLoop(row1, row_number, id, list1, qty - 1, expiry_date,
                                       zones_required, shelf1, level1, zone1)
      Added(list1, added) ==
        IF added.res # "Ok"
        THEN [row |-> row, list |-> list1, qty |-> qty, res |-> added.res]
        ELSE Advance(added.row, list1)
      Created(new) ==
        IF new.res # "Ok" THEN [row |-> row, list |-> products, qty |-> qty, res |-> new.res]
        ELSE Added(new.list, Row_add_oversized_item(row, shelf, level, zone, new.item))
  IN IF qty = 0 THEN [row |-> row, list |-> products, qty |-> qty, res |-> "Ok"]
     ELSE Created(ProductItem_new(id, products, <<row_number, shelf, level, zone>>,
                                  expiry_date))

Row_add_oversized_qty(row, row_number, id, products, qty, expiry_date, zones_required, start) ==
  LET From(shelf, level, zone) ==
        IF Product_max_level(id) # NoLevel /\ shelf > Len(row.shelves)
        THEN [row |-> row, list |-> products, qty |-> qty, res |-> "Ok"]
        ELSE RowAddOversizedQtyLoop(row, row_number, id, products, qty, expiry_date,
                                    zones_required, shelf, level, zone)
      Start(too_high) ==
        From(IF too_high THEN start[1] + 1 ELSE start[1],
             IF too_high THEN 1 ELSE start[2],
             IF too_high THEN 1 ELSE start[3])
  IN IF id \notin DOMAIN products
     THEN [row |-> row, list |-> products, qty |-> qty, res |-> "ProductNotListed"]
     ELSE Start(Product_max_level(id) # NoLevel /\ start[2] > Product_max_level(id))

\* ------------------------------------------------------------------ Warehouse (tree part)
HasRow(wh, row_number) == row_number >= 1 /\ row_number <= Len(wh.rows)

Warehouse_flat_map(wh) == Concat([r \in 1..Len(wh.rows) |-> Row_flat_map(wh.rows[r])])

Warehouse_oversized_flat_map(wh, zones_required) ==
  Concat([r \in 1..Len(wh.rows) |-> Row_oversized_flat_map(wh.rows[r], zones_required)])

Warehouse_check_capacity(wh) ==
  SumSeq([r \in 1..Len(wh.rows) |-> Row_check_capacity(wh.rows[r])])

Warehouse_check_oversized_capacity(wh, zones_required) ==
  SumSeq([r \in 1..Len(wh.rows) |-> Row_check_oversized_capacity(wh.rows[r], zones_required)])

Warehouse_is_empty(wh) ==
  LET AllZero(map) == \A i \in 1..Len(map) : map[i] = 0
  IN AllZero(Warehouse_flat_map(wh))

RECURSIVE WarehousePositionWalk(_, _, _, _)
WarehousePositionWalk(wh, position, row_index, cumulative_capacity) ==
  IF row_index >= Len(wh.rows) THEN NoCoord
  ELSE IF position < cumulative_capacity + Row_check_capacity(wh.rows[row_index + 1])
  THEN Prefix(row_index + 1,
              Row_flat_map_position_to_zone(wh.rows[row_index + 1],
                                            position - cumulative_capacity))
  ELSE WarehousePositionWalk(wh, position, row_index + 1,
                             cumulative_capacity
                               + Row_check_capacity(wh.rows[row_index + 1]))

Warehouse_flat_map_position_to_zone(wh, position) == WarehousePositionWalk(wh, position, 0, 0)

RECURSIVE WarehouseOversizedPositionWalk(_, _, _, _, _)
WarehouseOversizedPositionWalk(wh, position, zones_required, row_index, cumulative_capacity) ==
  LET row_capacity ==
        IF row_index < Len(wh.rows)
        THEN Row_check_capacity(wh.rows[row_index + 1]) ELSE 0
  IN IF row_index >= Len(wh.rows) THEN NoCoord
     ELSE IF position < cumulative_capacity + row_capacity
     THEN Prefix(row_index + 1,
                 Row_oversized_flat_map_position_to_zone(
                   wh.rows[row_index + 1],
                   IF position < cumulative_capacity + row_capacity - zones_required
                   THEN position - cumulative_capacity ELSE 1,
                   zones_required))
     ELSE WarehouseOversizedPositionWalk(wh, position, zones_required, row_index + 1,
                                         cumulative_capacity + row_capacity)

Warehouse_oversized_flat_map_position_to_zone(wh, position, zones_required) ==
  WarehouseOversizedPositionWalk(wh, position, zones_required, 0, 0)

Warehouse_item(wh, row_number, shelf_number, level_number, zone_number) ==
  IF HasRow(wh, row_number)
  THEN Row_item(wh.rows[row_number], shelf_number, level_number, zone_number)
  ELSE NoItem

Warehouse_items(wh) == Concat([r \in 1..Len(wh.rows) |-> Row_items(wh.rows[r])])

Warehouse_items_with_id(wh, product_id) ==
  SelectSeq(Warehouse_items(wh), LAMBDA it : it.id = product_id)

Warehouse_add_item(wh, row_number, shelf_number, level_number, zone_number, item) ==
  LET Added(r) ==
        IF r.res # "Ok" THEN [wh |-> wh, res |-> r.res]
        ELSE IF SubPanics(wh.available_space, 1) THEN [wh |-> wh, res |-> "Panic"]
        ELSE [wh |-> [wh EXCEPT !.rows[row_number] = r.row, !.available_space = @ - 1],
              res |-> "Ok"]
  IN IF ~HasRow(wh, row_number) THEN [wh |-> wh, res |-> "RowNotFound"]
     ELSE Added(Row_add_item(wh.rows[row_number], shelf_number, level_number,
                             zone_number, item))

Warehouse_add_oversized_item(wh, row_number, shelf_number, level_number, zone_number, item) ==
  LET Added(r) ==
        IF r.res # "Ok" THEN [wh |-> wh, res |-> r.res]
        ELSE IF SubPanics(wh.available_space, item.zones_required)
             THEN [wh |-> wh, res |-> "Panic"]
        ELSE [wh |-> [wh EXCEPT !.rows[row_number] = r.row,
                                !.available_space = @ - item.zones_required],
              res |-> "Ok"]
  IN IF ~HasRow(wh, row_number) THEN [wh |-> wh, res |-> "RowNotFound"]
     ELSE Added(Row_add_oversized_item(wh.rows[row_number], shelf_number, level_number,
                                       zone_number, item))

Warehouse_remove_item(wh, row_number, shelf_number, level_number, zone_number) ==
  LET Removed(zones_required, r) ==
        IF r.res # "Ok" THEN [wh |-> wh, res |-> r.res]
        ELSE IF AddPanics(wh.available_space, zones_required)
             THEN [wh |-> wh, res |-> "Panic"]
        ELSE [wh |-> [wh EXCEPT !.rows[row_number] = r.row,
                                !.available_space = @ + zones_required],
              res |-> "Ok"]
      zones_required ==
        Warehouse_item(wh, row_number, shelf_number, level_number, zone_number).zones_required
  IN IF Warehouse_item(wh, row_number, shelf_number, level_number, zone_number) = NoItem
     THEN [wh |-> wh, res |-> "NoProductFound"]
     ELSE IF ~HasRow(wh, row_number) THEN [wh |-> wh, res |-> "RowNotFound"]
     ELSE IF zones_required > 1
     THEN Removed(zones_required,
                  Row_remove_oversized_item(wh.rows[row_number], shelf_number,
                                            level_number, zone_number))
     ELSE Removed(1, Row_remove_item(wh.rows[row_number], shelf_number, level_number,
                                     zone_number))

\* ------------------------------------------------------------------ Warehouse (sequential fill)
\* Warehouse::add_qty going on at the second shelf of the next row, not the first.
RECURSIVE Warehouse_add_qty_second_shelf(_, _, _, _, _, _)
Warehouse_add_qty_second_shelf(wh, id, products, qty, expiry_date, start) ==
  LET Filled(wh1, r) ==
        IF r.res # "Ok" THEN [wh |-> wh1, list |-> r.list, res |-> r.res]
        ELSE IF start[1] > Len(wh.rows) THEN [wh |-> wh1, list |-> r.list, res |-> "EndOfRows"]
        ELSE Warehouse_add_qty_second_shelf(wh1, id, r.list, r.qty, expiry_date,
                                            <<start[1] + 1, 2, 1, 1>>)
      Stored(r) == Filled([wh EXCEPT !.rows[start[1]] = r.row], r)
  IN IF qty = 0 THEN [wh |-> wh, list |-> products, res |-> "Ok"]
     ELSE IF ~HasRow(wh, start[1]) THEN [wh |-> wh, list |-> products, res |-> "Panic"]
     ELSE Stored(Row_add_qty(wh.rows[start[1]], start[1], id, products, qty, expiry_date,
                             <<start[2], start[3], start[4]>>))

\* The `while qty > 0` loop of Warehouse::add_qty; self.rows[row - 1] panics
\* when row is not the number of a row.
RECURSIVE Warehouse_add_qty(_, _, _, _, _, _)
Warehouse_add_qty(wh, id, products, qty, expiry_date, start) ==
  LET \* Row::add_qty works on the row alone: the warehouse counter is not touched
      Filled(wh1, r) ==
        IF r.res # "Ok" THEN [wh |-> wh1, list |-> r.list, res |-> r.res]
        ELSE IF start[1] > Len(wh.rows) THEN [wh |-> wh1, list |-> r.list, res |-> "EndOfRows"]
        ELSE Warehouse_add_qty(wh1, id, r.list, r.qty, expiry_date, <<start[1] + 1, 1, 1, 1>>)
      Stored(r) == Filled([wh EXCEPT !.rows[start[1]] = r.row], r)
  IN IF qty = 0 THEN [wh |-> wh, list |-> products, res |-> "Ok"]
     ELSE IF ~HasRow(wh, start[1]) THEN [wh |-> wh, list |-> products, res |-> "Panic"]
     ELSE Stored(Row_add_qty(wh.rows[start[1]], start[1], id, products, qty, expiry_date,
                             <<start[2], start[3], start[4]>>))

RECURSIVE Warehouse_add_oversized_qty(_, _, _, _, _, _, _)
Warehouse_add_oversized_qty(wh, id, products, qty, expiry_date, zones_required, start) ==
  LET Filled(wh1, r) ==
        IF r.res # "Ok" THEN [wh |-> wh1, list |-> r.list, res |-> r.res]
        ELSE IF start[1] > Len(wh.rows) THEN [wh |-> wh1, list |-> r.list, res |-> "EndOfRows"]
        ELSE Warehouse_add_oversized_qty(wh1, id, r.list, r.qty, expiry_date, zones_required,
                                         <<start[1] + 1, 1, 1, 1>>)
      Stored(r) == Filled([wh EXCEPT !.rows[start[1]] = r.row], r)
  IN IF qty = 0 THEN [wh |-> wh, list |-> products, res |-> "Ok"]
     ELSE IF ~HasRow(wh, start[1]) THEN [wh |-> wh, list |-> products, res |-> "Panic"]
     ELSE Stored(Row_add_oversized_qty(wh.rows[start[1]], start[1], id, products, qty,
                                       expiry_date, zones_required,
                                       <<start[2], start[3], start[4]>>))

\* ------------------------------------------------------------------ Contiguous
\* n copies of a sequence
RECURSIVE Repeat(_, _)
Repeat(seq, n) == IF n <= 0 THEN <<>> ELSE seq \o Repeat(seq, n - 1)

\* map[index..index + Len(pattern)] == pattern
MatchesAt(map, index, pattern) == \A k \in 1..Len(pattern) : map[index + k] = pattern[k]

Warehouse_find_first_contiguous_space(wh, qty) ==
  LET First(hits) ==
        IF hits = {} THEN NoCoord
        ELSE Warehouse_flat_map_position_to_zone(
               wh, (CHOOSE i \in hits : \A j \in hits : i <= j) + 1)
      Search(flat_map) ==
        First({index \in 0..Len(flat_map) :
                 index + qty < Len(flat_map) /\ AllVacant(flat_map, index, qty)})
  IN Search(Warehouse_flat_map(wh))

Warehouse_find_first_contiguous_oversized_space(wh, qty, zones_required) ==
  LET First(hits) ==
        IF hits = {} THEN NoCoord
        ELSE Warehouse_oversized_flat_map_position_to_zone(
               wh, (CHOOSE i \in hits : \A j \in hits : i <= j) + 1, zones_required)
      Search(flat_map, pattern) ==
        First({index \in 0..Len(flat_map) :
                 index + (qty * zones_required) < Len(flat_map)
                 /\ MatchesAt(flat_map, index, pattern)})
  IN Search(Warehouse_oversized_flat_map(wh, zones_required),
            Repeat(Marker(zones_required), qty))

\* place_contiguous_stock that, finding no run, stores from the first coordinate on.
Warehouse_place_contiguous_stock_anywhere(wh, id, products, qty, expiry_date) ==
  LET From(start) ==
        Warehouse_add_qty(wh, id, products, qty, expiry_date,
                          IF start = NoCoord THEN <<1, 1, 1, 1>> ELSE start)
  IN From(Warehouse_find_first_contiguous_space(wh, qty))

Warehouse_place_contiguous_stock(wh, id, products, qty, expiry_date) ==
  LET From(start) ==
        IF start = NoCoord THEN [wh |-> wh, list |-> products, res |-> "InsufficientSpace"]
        ELSE Warehouse_add_qty(wh, id, products, qty, expiry_date, start)
  IN From(Warehouse_find_first_contiguous_space(wh, qty))

Warehouse_place_contiguous_oversized_stock(wh, id, products, qty, expiry_date, zones_required) ==
  LET From(start) ==
        IF start = NoCoord THEN [wh |-> wh, list |-> products, res |-> "InsufficientSpace"]
        ELSE Warehouse_add_oversized_qty(wh, id, products, qty, expiry_date, zones_required,
                                         start)
  IN From(Warehouse_find_first_contiguous_oversized_space(wh, qty, zones_required))

Warehouse_contiguous_placement(wh, id, products, qty, expiry_date) ==
  IF id \notin DOMAIN products THEN [wh |-> wh, list |-> products, res |-> "ProductNotListed"]
  ELSE IF IsOversized(quality(id))
  THEN Warehouse_place_contiguous_oversized_stock(wh, id, products, qty, expiry_date,
                                                  quality(id).zones_required)
  ELSE Warehouse_place_contiguous_stock(wh, id, products, qty, expiry_date)

\* ------------------------------------------------------------------ RoundRobin
\* str::rfind: the 0-based index where the last match of pattern starts, NoPos for None.
RFind(map, pattern) ==
  LET Last(hits) == IF hits = {} THEN NoPos ELSE CHOOSE i \in hits : \A j \in hits : i >= j
  IN Last({index \in 0..Len(map) :
             index + Len(pattern) <= Len(map) /\ MatchesAt(map, index, pattern)})

\* find_round_robin_continuation without its branch for the empty warehouse.
Warehouse_find_round_robin_continuation_occupied_only(wh, flat_map) ==
  LET At(last_index) ==
        IF last_index # NoPos THEN Warehouse_flat_map_position_to_zone(wh, last_index)
        ELSE NoCoord
  IN At(RFind(flat_map, <<1>>))

Warehouse_find_round_robin_continuation(wh, flat_map) ==
  LET At(last_index) ==
        IF last_index # NoPos THEN Warehouse_flat_map_position_to_zone(wh, last_index)
        ELSE <<1, 1, 1, 1>>
  IN At(RFind(flat_map, <<1>>))

Warehouse_find_oversized_round_robin_continuation(wh, flat_map, zones_required) ==
  LET At(last_index) ==
        IF last_index # NoPos
        THEN Warehouse_oversized_flat_map_position_to_zone(wh, last_index, zones_required)
        ELSE IF Warehouse_is_empty(wh) THEN <<1, 1, 1, 1>>
        ELSE NoCoord
  IN At(RFind(flat_map, Repeat(<<0>>, zones_required)))

Warehouse_place_stock_in_round_robin(wh, id, products, qty, expiry_date) ==
  LET From(first_zone) ==
        IF first_zone = NoCoord
        THEN [wh |-> wh, list |-> products, res |-> "InsufficientSpace"]
        ELSE Warehouse_add_qty(wh, id, products, qty, expiry_date, first_zone)
  IN From(Warehouse_find_round_robin_continuation(wh, Warehouse_flat_map(wh)))

Warehouse_place_oversized_stock_in_round_robin(wh, id, products, qty, expiry_date,
                                               zones_required) ==
  LET From(first_zone) ==
        IF first_zone = NoCoord
        THEN [wh |-> wh, list |-> products, res |-> "InsufficientSpace"]
        ELSE Warehouse_add_oversized_qty(wh, id, products, qty, expiry_date, zones_required,
                                         first_zone)
  IN From(Warehouse_find_oversized_round_robin_continuation(
            wh, Warehouse_oversized_flat_map(wh, zones_required), zones_required))

Warehouse_round_robin_placement(wh, id, products, qty, expiry_date) ==
  IF id \notin DOMAIN products THEN [wh |-> wh, list |-> products, res |-> "ProductNotListed"]
  ELSE IF IsOversized(quality(id))
  THEN Warehouse_place_oversized_stock_in_round_robin(wh, id, products, qty, expiry_date,
                                                      quality(id).zones_required)
  ELSE Warehouse_place_stock_in_round_robin(wh, id, products, qty, expiry_date)

\* ------------------------------------------------------------------ ClosestToStart
\* HashMap<(row, shelf), bool>, keyed by the numbers of the rows and shelves.
Warehouse_shelf_vacancy_map(wh) ==
  [key \in UNION {{<<r, s>> : s \in 1..Len(wh.rows[r].shelves)} : r \in 1..Len(wh.rows)} |->
     ~Shelf_is_full(wh.rows[key[1]].shelves[key[2]])]

\* diagonal_search walking each diagonal from its last row back to its first.
Warehouse_diagonal_search_last_row_first(wh, vacancy_map) ==
  LET rows == Len(wh.rows)
      shelves == Len(wh.rows[1].shelves)
      hits == {di \in {<<d, i>> : d \in 1..(rows + shelves - 1), i \in 0..(rows + shelves - 1)} :
                 /\ di[2] < di[1]
                 /\ di[2] <= rows /\ di[1] - di[2] <= shelves
                 /\ <<di[2], di[1] - di[2]>> \in DOMAIN vacancy_map
                 /\ vacancy_map[<<di[2], di[1] - di[2]>>]}
  IN IF hits = {} THEN NoCoord
     ELSE LET first == CHOOSE a \in hits :
                         \A b \in hits : a[1] < b[1] \/ (a[1] = b[1] /\ a[2] >= b[2])
          IN <<first[2], first[1] - first[2]>>

\* The first (row, shelf) of the scan `diagonal = 1 .. rows + shelves - 1`,
\* `i = 0 .. diagonal - 1`, row = i, shelf = diagonal - i, that the map holds as vacant.
Warehouse_diagonal_search(wh, vacancy_map) ==
  LET rows == Len(wh.rows)
      shelves == Len(wh.rows[1].shelves)
      hits == {di \in {<<d, i>> : d \in 1..(rows + shelves - 1), i \in 0..(rows + shelves - 1)} :
                 /\ di[2] < di[1]
                 /\ di[2] <= rows /\ di[1] - di[2] <= shelves
                 /\ <<di[2], di[1] - di[2]>> \in DOMAIN vacancy_map
                 /\ vacancy_map[<<di[2], di[1] - di[2]>>]}
  IN IF hits = {} THEN NoCoord
     ELSE LET first == CHOOSE a \in hits :
                         \A b \in hits : a[1] < b[1] \/ (a[1] = b[1] /\ a[2] <= b[2])
          IN <<first[2], first[1] - first[2]>>

\* The `while let Some((row, shelf)) = self.diagonal_search(..)` loop.  When the shelf
\* found has no vacant zone the body changes nothing and the loop never ends: "Hang".
RECURSIVE Warehouse_find_closest_to_start(_, _, _)
Warehouse_find_closest_to_start(wh, vacancy_map, max_level) ==
  LET Placed(row, shelf, level, zone) ==
        LET levels == Len(wh.rows[row].shelves[shelf].levels)
            zones == Len(wh.rows[row].shelves[shelf].levels[level].zones)
        IN IF zone >= zones /\ level = UnwrapOr(max_level, levels)
           THEN [place |-> <<row, shelf, level, zone>>,
                 vacancy_map |-> [vacancy_map EXCEPT ![<<row, shelf>>] = FALSE],
                 res |-> "Ok"]
           ELSE IF level > UnwrapOr(max_level, levels)
           THEN Warehouse_find_closest_to_start(
                  wh, [vacancy_map EXCEPT ![<<row, shelf>>] = FALSE], max_level)
           ELSE [place |-> <<row, shelf, level, zone>>, vacancy_map |-> vacancy_map,
                 res |-> "Ok"]
      Vacancy(row, shelf, lz) ==
        IF lz = NoCoord THEN [place |-> NoCoord, vacancy_map |-> vacancy_map, res |-> "Hang"]
        ELSE Placed(row, shelf, lz[1], lz[2])
      Found(found) ==
        IF found = NoCoord THEN [place |-> NoCoord, vacancy_map |-> vacancy_map, res |-> "Ok"]
        ELSE Vacancy(found[1], found[2],
                     Shelf_find_vacant_zone(wh.rows[found[1]].shelves[found[2]]))
  IN Found(Warehouse_diagonal_search(wh, vacancy_map))

RECURSIVE Warehouse_find_oversized_closest_to_start(_, _, _, _)
Warehouse_find_oversized_closest_to_start(wh, vacancy_map, max_level, zones_required) ==
  LET Placed(row, shelf, level, zone) ==
        LET levels == Len(wh.rows[row].shelves[shelf].levels)
            zones == Len(wh.rows[row].shelves[shelf].levels[level].zones)
        IN IF zone >= zones - zones_required /\ level = levels
           THEN [place |-> <<row, shelf, level, zone>>,
                 vacancy_map |-> [vacancy_map EXCEPT ![<<row, shelf>>] = FALSE],
                 res |-> "Ok"]
           ELSE IF level > UnwrapOr(max_level, levels)
           THEN Warehouse_find_oversized_closest_to_start(
                  wh, [vacancy_map EXCEPT ![<<row, shelf>>] = FALSE], max_level,
                  zones_required)
           ELSE [place |-> <<row, shelf, level, zone>>, vacancy_map |-> vacancy_map,
                 res |-> "Ok"]
      Vacancy(row, shelf, lz) ==
        IF lz = NoCoord THEN [place |-> NoCoord, vacancy_map |-> vacancy_map, res |-> "Hang"]
        ELSE Placed(row, shelf, lz[1], lz[2])
      Found(found) ==
        IF found = NoCoord THEN [place |-> NoCoord, vacancy_map |-> vacancy_map, res |-> "Ok"]
        ELSE Vacancy(found[1], found[2],
                     Shelf_find_oversized_vacant_zone(wh.rows[found[1]].shelves[found[2]],
                                                      zones_required))
  IN Found(Warehouse_diagonal_search(wh, vacancy_map))

\* The `while qty > 0` loop of place_stock_closest_to_start.
RECURSIVE ClosestToStartLoop(_, _, _, _, _, _)
ClosestToStartLoop(wh, id, products, qty, expiry_date, vacancy_map) ==
  LET Added(f, list1, added) ==
        IF added.res # "Ok" THEN [wh |-> wh, list |-> list1, res |-> added.res]
        ELSE ClosestToStartLoop(added.wh, id, list1, qty - 1, expiry_date, f.vacancy_map)
      Created(f, new) ==
        IF new.res # "Ok" THEN [wh |-> wh, list |-> products, res |-> new.res]
        ELSE Added(f, new.list,
                   Warehouse_add_item(wh, f.place[1], f.place[2], f.place[3], f.place[4],
                                      new.item))
      Found(f) ==
        IF f.res # "Ok" THEN [wh |-> wh, list |-> products, res |-> f.res]
        ELSE IF f.place = NoCoord
        THEN [wh |-> wh, list |-> products, res |-> "InsufficientSpace"]
        ELSE Created(f, ProductItem_new(id, products, f.place, expiry_date))
  IN IF qty = 0 THEN [wh |-> wh, list |-> products, res |-> "Ok"]
     ELSE Found(Warehouse_find_closest_to_start(wh, vacancy_map, Product_max_level(id)))

Warehouse_place_stock_closest_to_start(wh, id, products, qty, expiry_date) ==
  ClosestToStartLoop(wh, id, products, qty, expiry_date, Warehouse_shelf_vacancy_map(wh))

RECURSIVE OversizedClosestToStartLoop(_, _, _, _, _, _, _)
OversizedClosestToStartLoop(wh, id, products, qty, expiry_date, zones_required, vacancy_map) ==
  LET Added(f, list1, added) ==
        IF added.res # "Ok" THEN [wh |-> wh, list |-> list1, res |-> added.res]
        ELSE OversizedClosestToStartLoop(added.wh, id, list1, qty - 1, expiry_date,
                                         zones_required, f.vacancy_map)
      Created(f, new) ==
        IF new.res # "Ok" THEN [wh |-> wh, list |-> products, res |-> new.res]
        ELSE Added(f, new.list,
                   Warehouse_add_oversized_item(wh, f.place[1], f.place[2], f.place[3],
                                                f.place[4], new.item))
      Found(f) ==
        IF f.res # "Ok" THEN [wh |-> wh, list |-> products, res |-> f.res]
        ELSE IF f.place = NoCoord
        THEN [wh |-> wh, list |-> products, res |-> "InsufficientSpace"]
        ELSE Created(f, ProductItem_new(id, products, f.place, expiry_date))
  IN IF qty = 0 THEN [wh |-> wh, list |-> products, res |-> "Ok"]
     ELSE Found(Warehouse_find_oversized_closest_to_start(
                  wh, vacancy_map, Product_max_level(id), zones_required))

Warehouse_place_oversized_stock_closest_to_start(wh, id, products, qty, expiry_date,
                                                 zones_required) ==
  OversizedClosestToStartLoop(wh, id, products, qty, expiry_date, zones_required,
                              Warehouse_shelf_vacancy_map(wh))

Warehouse_closest_to_start_placement(wh, id, products, qty, expiry_date) ==
  IF id \notin DOMAIN products THEN [wh |-> wh, list |-> products, res |-> "ProductNotListed"]
  ELSE IF IsOversized(quality(id))
  THEN Warehouse_place_oversized_stock_closest_to_start(wh, id, products, qty, expiry_date,
                                                        quality(id).zones_required)
  ELSE Warehouse_place_stock_closest_to_start(wh, id, products, qty, expiry_date)

\* ------------------------------------------------------------------ restock
Warehouse_independent_restock(wh, strat, id, qty, products, expiry_date) ==
  IF id \notin DOMAIN products THEN [wh |-> wh, list |-> products, res |-> "ProductNotListed"]
  ELSE CASE strat = "Contiguous" ->
              Warehouse_contiguous_placement(wh, id, products, qty, expiry_date)
         [] strat = "RoundRobin" ->
              Warehouse_round_robin_placement(wh, id, products, qty, expiry_date)
         [] strat = "ClosestToStart" ->
              Warehouse_closest_to_start_placement(wh, id, products, qty, expiry_date)

\* ------------------------------------------------------------------ removal
DateKey(item) == IF item.expiry_date = NoDate THEN FarFuture ELSE item.expiry_date

\* Vec::sort_by is stable: insert each item after the items whose key is not larger.
RECURSIVE InsertSorted(_, _)
InsertSorted(sorted, item) ==
  IF sorted = <<>> THEN <<item>>
  ELSE IF DateKey(Head(sorted)) <= DateKey(item)
       THEN <<Head(sorted)>> \o InsertSorted(Tail(sorted), item)
       ELSE <<item>> \o sorted

RECURSIVE Warehouse_sort_by_expiry_date(_)
Warehouse_sort_by_expiry_date(item_list) ==
  IF item_list = <<>> THEN <<>>
  ELSE InsertSorted(Warehouse_sort_by_expiry_date(SubSeq(item_list, 1, Len(item_list) - 1)),
                    item_list[Len(item_list)])

Reverse(seq) == [i \in 1..Len(seq) |-> seq[Len(seq) + 1 - i]]

\* take_stock that refuses, before it removes anything, a quantity the list cannot give.
RECURSIVE Warehouse_take_stock_all_or_nothing(_, _, _)
Warehouse_take_stock_all_or_nothing(wh, qty, item_list) ==
  LET Removed(r) ==
        IF r.res # "Ok" THEN [wh |-> wh, res |-> r.res]
        ELSE Warehouse_take_stock_all_or_nothing(r.wh, qty - 1,
                                                 SubSeq(item_list, 1, Len(item_list) - 1))
      Pop(p) == Removed(Warehouse_remove_item(wh, p[1], p[2], p[3], p[4]))
  IN IF qty = 0 THEN [wh |-> wh, res |-> "Ok"]
     ELSE IF Len(item_list) < qty THEN [wh |-> wh, res |-> "InsufficientStock"]
     ELSE Pop(item_list[Len(item_list)].placement)

\* take_stock: pop from the end of the list until qty items are removed.
RECURSIVE Warehouse_take_stock(_, _, _)
Warehouse_take_stock(wh, qty, item_list) ==
  LET Removed(r) ==
        IF r.res # "Ok" THEN [wh |-> wh, res |-> r.res]
        ELSE Warehouse_take_stock(r.wh, qty - 1, SubSeq(item_list, 1, Len(item_list) - 1))
      Pop(p) == Removed(Warehouse_remove_item(wh, p[1], p[2], p[3], p[4]))
  IN IF qty = 0 THEN [wh |-> wh, res |-> "Ok"]
     ELSE IF item_list = <<>> THEN [wh |-> wh, res |-> "InsufficientStock"]
     ELSE Pop(item_list[Len(item_list)].placement)

\* remove_stock without the reversal of the sorted list.
Warehouse_remove_stock_latest_first(wh, id, qty) ==
  LET Take(items) ==
        IF items = <<>> THEN [wh |-> wh, res |-> "Panic"]
        ELSE Warehouse_take_stock(
               wh, qty,
               IF items[1].expiry_date # NoDate
               THEN Warehouse_sort_by_expiry_date(items)
               ELSE items)
  IN Take(Warehouse_items_with_id(wh, id))

\* remove_stock: `list[0]` panics on an empty list.
Warehouse_remove_stock(wh, id, qty) ==
  LET Take(items) ==
        IF items = <<>> THEN [wh |-> wh, res |-> "Panic"]
        ELSE Warehouse_take_stock(
               wh, qty,
               IF items[1].expiry_date # NoDate
               THEN Reverse(Warehouse_sort_by_expiry_date(items))
               ELSE items)
  IN Take(Warehouse_items_with_id(wh, id))

Warehouse_remove_all_stock(wh, id) ==
  Warehouse_remove_stock(wh, id, Len(Warehouse_items_with_id(wh, id)))

\* ------------------------------------------------------------------ construction
Level_new(zone_count) ==
  [available_space |-> zone_count, zones |-> [z \in 1..zone_count |-> Vacant]]

Shelf_new(level_count, zone_per_level) ==
  [available_space |-> level_count * zone_per_level,
   levels |-> [l \in 1..level_count |-> Level_new(zone_per_level)]]

Row_new(shelf_count, level_per_shelf, zone_per_level) ==
  [available_space |-> shelf_count * level_per_shelf * zone_per_level,
   shelves |-> [s \in 1..shelf_count |-> Shelf_new(level_per_shelf, zone_per_level)]]

Warehouse_initialize_rows(row_count, shelves_per_row, levels_per_shelf, zone_per_level) ==
  [available_space |-> row_count * shelves_per_row * levels_per_shelf * zone_per_level,
   rows |-> [r \in 1..row_count |-> Row_new(shelves_per_row, levels_per_shelf, zone_per_level)]]

Strategies == {"Contiguous", "RoundRobin", "ClosestToStart"}

Call(op, id, qty, expiry_date, place, res) ==
  [op |-> op, id |-> id, qty |-> qty, expiry_date |-> expiry_date, place |-> place, res |-> res]

Init ==
  /\ warehouse = Warehouse_initialize_rows(NumRows, NumShelves, NumLevels, NumZones)
  /\ strategy \in Strategies
  /\ list = [id \in ProductIds |-> 0]
  /\ overflow_checks \in BOOLEAN
  /\ last = Call("new", 0, 0, NoDate, <<0, 0, 0, 0>>, "Ok")
  /\ calls = 0

\* A panic ends the process and a loop that never ends returns nothing: no further call.
Stopped == last.res \in {"Panic", "Hang"}

\* ------------------------------------------------------------------ actions
IndependentRestock(id, qty, expiry_date) ==
  LET Returned(r) ==
        /\ warehouse' = r.wh
        /\ list' = r.list
        /\ last' = Call("restock", id, qty, expiry_date, <<0, 0, 0, 0>>, r.res)
  IN /\ ~Stopped
     /\ Returned(Warehouse_independent_restock(warehouse, strategy, id, qty, list,
                                               expiry_date))
     /\ calls' = calls + 1
     /\ UNCHANGED <<strategy, overflow_checks>>

RemoveStock(id, qty) ==
  LET Returned(r) ==
        /\ warehouse' = r.wh
        /\ last' = Call("remove_stock", id, qty, NoDate, <<0, 0, 0, 0>>, r.res)
  IN /\ ~Stopped
     /\ Returned(Warehouse_remove_stock(warehouse, id, qty))
     /\ calls' = calls + 1
     /\ UNCHANGED <<strategy, list, overflow_checks>>

RemoveAllStock(id) ==
  LET Returned(r) ==
        /\ warehouse' = r.wh
        /\ last' = Call("remove_all_stock", id, 0, NoDate, <<0, 0, 0, 0>>, r.res)
  IN /\ ~Stopped
     /\ Returned(Warehouse_remove_all_stock(warehouse, id))
     /\ calls' = calls + 1
     /\ UNCHANGED <<strategy, list, overflow_checks>>

\* Any product, any quantity up to MaxQty, at most MaxOps calls.
Next ==
  \/ \E id \in ProductIds, qty \in 1..MaxQty, expiry_date \in {NoDate} \cup Dates :
       calls < MaxOps /\ IndependentRestock(id, qty, expiry_date)
  \/ \E id \in ProductIds, qty \in 1..MaxQty : calls < MaxOps /\ RemoveStock(id, qty)
  \/ \E id \in ProductIds : calls < MaxOps /\ RemoveAllStock(id)

Spec == Init /\ [][Next]_vars

\* Batches of one product, whichever it is, restocked one after the other, each
\* restock returning Ok, and then removed: at most MaxBatchOps calls, every one made
\* after the calls before it returned Ok.
SameProduct(id) == last.op = "new" \/ last.id = id
Restocking == last.op \in {"new", "restock"}

NextBatches ==
  \/ \E id \in ProductIds, qty \in 1..MaxQty, expiry_date \in {NoDate} \cup Dates :
       /\ calls < MaxBatchOps /\ last.res = "Ok" /\ SameProduct(id) /\ Restocking
       /\ IndependentRestock(id, qty, expiry_date)
  \/ \E id \in ProductIds, qty \in 1..MaxQty :
       /\ calls < MaxBatchOps /\ last.res = "Ok" /\ SameProduct(id)
       /\ RemoveStock(id, qty)
  \/ \E id \in ProductIds :
       /\ calls < MaxBatchOps /\ last.res = "Ok" /\ SameProduct(id)
       /\ RemoveAllStock(id)

SpecBatches == Init /\ [][NextBatches]_vars

\* Filling the warehouse: any product in any quantity up to one more than the number
\* of zones, every instance dated, at most MaxFillOps calls.
Capacity == NumRows * NumShelves * NumLevels * NumZones
FillDate == 20211231

NextFill ==
  \/ \E id \in ProductIds, qty \in 1..(Capacity + 1) :
       calls < MaxFillOps /\ IndependentRestock(id, qty, FillDate)
  \/ \E id \in ProductIds, qty \in 1..(Capacity + 1) :
       calls < MaxFillOps /\ RemoveStock(id, qty)
  \/ \E id \in ProductIds : calls < MaxFillOps /\ RemoveAllStock(id)

SpecFill == Init /\ [][NextFill]_vars

\* ------------------------------------------------------------------ storage front end
\* The names of the listed products; "Pear" is a name the list does not hold.
Name(id) ==
  CASE id = Apple -> "Apple"
    [] id = Banana -> "Banana"
    [] id = Watermelon -> "Watermelon"
    [] id = Melon -> "Melon"
Names == {Name(id) : id \in ProductIds} \cup {"Pear"}

\* Option<u64>: 0 stands for None.
NoId == 0
ProductList_id_from_name(name) ==
  IF \E id \in ProductIds : Name(id) = name
  THEN CHOOSE id \in ProductIds : Name(id) = name
  ELSE NoId

\* step_qty: quantity is an isize, the catalog quantity a usize.
ProductList_step_qty(products, id, quantity) ==
  IF id \notin DOMAIN products THEN [list |-> products, res |-> "ProductNotFound"]
  ELSE IF quantity < 0 /\ products[id] < -quantity
  THEN [list |-> products, res |-> "NotEnoughQuantity"]
  ELSE [list |-> [products EXCEPT ![id] = @ + quantity], res |-> "Ok"]

ProductList_empty_qty(products, id) ==
  IF id \notin DOMAIN products THEN [list |-> products, res |-> "ProductNotFound"]
  ELSE [list |-> [products EXCEPT ![id] = 0], res |-> "Ok"]

\* Each returns [wh, list, res].
Storage_restock_product(wh, strat, products, id, quantity, expiry_date) ==
  LET Stepped(r, q) == [wh |-> r.wh, list |-> q.list, res |-> q.res]
      Restocked(r) ==
        IF r.res # "Ok" THEN r
        ELSE Stepped(r, ProductList_step_qty(r.list, id, quantity))
  IN Restocked(Warehouse_independent_restock(wh, strat, id, quantity, products, expiry_date))

Storage_restock_by_name(wh, strat, products, name, quantity, expiry_date) ==
  LET Stepped(r, q) == [wh |-> r.wh, list |-> q.list, res |-> q.res]
      Restocked(id, r) ==
        IF r.res # "Ok" THEN r
        ELSE Stepped(r, ProductList_step_qty(r.list, id, -quantity))
      Found(id) ==
        IF id = NoId THEN [wh |-> wh, list |-> products, res |-> "ProductNotFound"]
        ELSE Restocked(id, Storage_restock_product(wh, strat, products, id, quantity,
                                                   expiry_date))
  IN Found(ProductList_id_from_name(name))

\* remove_stock that empties the catalog quantity after a removal, whatever is left.
Storage_remove_stock_emptying(wh, products, id, quantity) ==
  LET Stepped(r, q) == [wh |-> r.wh, list |-> q.list, res |-> q.res]
      Removed(r) ==
        IF r.res # "Ok" THEN [wh |-> r.wh, list |-> products, res |-> r.res]
        ELSE Stepped(r, ProductList_empty_qty(products, id))
  IN IF id \notin DOMAIN products THEN [wh |-> wh, list |-> products, res |-> "ProductNotFound"]
     ELSE Removed(Warehouse_remove_stock(wh, id, quantity))

Storage_remove_stock(wh, products, id, quantity) ==
  LET Stepped(r, q) == [wh |-> r.wh, list |-> q.list, res |-> q.res]
      Removed(r) ==
        IF r.res # "Ok" THEN [wh |-> r.wh, list |-> products, res |-> r.res]
        ELSE Stepped(r, ProductList_step_qty(products, id, -quantity))
  IN IF id \notin DOMAIN products THEN [wh |-> wh, list |-> products, res |-> "ProductNotFound"]
     ELSE Removed(Warehouse_remove_stock(wh, id, quantity))

Storage_empty_stock(wh, products, id) ==
  LET Stepped(r, q) == [wh |-> r.wh, list |-> q.list, res |-> q.res]
      Removed(r) ==
        IF r.res # "Ok" THEN [wh |-> r.wh, list |-> products, res |-> r.res]
        ELSE Stepped(r, ProductList_empty_qty(products, id))
  IN IF id \notin DOMAIN products THEN [wh |-> wh, list |-> products, res |-> "ProductNotFound"]
     ELSE Removed(Warehouse_remove_all_stock(wh, id))

\* delete_product_by_id: refused while the catalog quantity is above 0.
Storage_delete_product_by_id(products, id) ==
  IF id \notin DOMAIN products THEN [list |-> products, res |-> "ProductNotFound"]
  ELSE IF products[id] > 0 THEN [list |-> products, res |-> "HasStock"]
  ELSE [list |-> [i \in DOMAIN products \ {id} |-> products[i]], res |-> "Ok"]

\* ------------------------------------------------------------------ a product larger than a level
\* The state after the Crate has been added to the default catalog.
InitCrate ==
  /\ warehouse = Warehouse_initialize_rows(NumRows, NumShelves, NumLevels, NumZones)
  /\ strategy \in Strategies
  /\ list = [id \in ProductIds \cup {Crate} |-> 0]
  /\ overflow_checks \in BOOLEAN
  /\ last = Call("new", 0, 0, NoDate, <<0, 0, 0, 0>>, "Ok")
  /\ calls = 0

NextCrate ==
  \/ \E id \in ProductIds \cup {Crate}, qty \in 1..MaxQty, expiry_date \in {NoDate} \cup Dates :
       calls < MaxCrateOps /\ IndependentRestock(id, qty, expiry_date)
  \/ \E id \in ProductIds, qty \in 1..MaxQty : calls < MaxCrateOps /\ RemoveStock(id, qty)

SpecCrate == InitCrate /\ [][NextCrate]_vars

\* ------------------------------------------------------------------ expiry listings
\* Dates are numbers yyyymmdd, which compare as NaiveDate does; NoDate (None) is
\* below every date, as None is below every Some.
DaysInMonth(y, m) ==
  IF m = 2 THEN (IF (y % 4 = 0 /\ y % 100 # 0) \/ y % 400 = 0 THEN 29 ELSE 28)
  ELSE IF m \in {4, 6, 9, 11} THEN 30 ELSE 31

\* date + chrono::Duration::days(days)
RECURSIVE AddDays(_, _)
AddDays(date, days) ==
  LET y == date \div 10000
      m == (date \div 100) % 100
      d == date % 100
      next == IF d < DaysInMonth(y, m) THEN date + 1
              ELSE IF m < 12 THEN y * 10000 + (m + 1) * 100 + 1
              ELSE (y + 1) * 10000 + 101
  IN IF days = 0 THEN date ELSE AddDays(next, days - 1)

\* filter(|item| item.expiry_date > Some(expiry_date))
Warehouse_filter_by_expiry_date(item_list, expiry_date) ==
  SelectSeq(item_list, LAMBDA item : item.expiry_date > expiry_date)

\* filter(|item| item.expiry_date < Some(expiry_date))
Warehouse_filter_expired_items(wh, expiry_date) ==
  SelectSeq(Warehouse_items(wh), LAMBDA item : item.expiry_date < expiry_date)

\* The items the listing prints, in the order it prints them.
Warehouse_print_expiring_items(wh, expiry_date) ==
  Warehouse_filter_by_expiry_date(Warehouse_items(wh), expiry_date)

Warehouse_print_expired_items(wh, expiry_date) ==
  Warehouse_filter_by_expiry_date(Warehouse_items(wh), expiry_date)

\* today is the date chrono::Local::now() gives.
Storage_list_expiring_items(wh, today, days) ==
  Warehouse_print_expiring_items(wh, AddDays(today, days))

Storage_list_expired_items(wh, today) == Warehouse_print_expired_items(wh, today)

\* The dates the listings are asked on.
Today == {20211230, 20211231, 20220101, 20221231}

\* One call of the front end: the warehouse and the catalog it leaves behind.
StorageCall(op, id, qty, expiry_date, r) ==
  /\ ~Stopped
  /\ warehouse' = r.wh
  /\ list' = r.list
  /\ last' = Call(op, id, qty, expiry_date, <<0, 0, 0, 0>>, r.res)
  /\ calls' = calls + 1
  /\ UNCHANGED <<strategy, overflow_checks>>

RestockProduct(id, qty, expiry_date) ==
  StorageCall("restock_product", id, qty, expiry_date,
              Storage_restock_product(warehouse, strategy, list, id, qty, expiry_date))

RestockByName(name, qty, expiry_date) ==
  StorageCall("restock_by_name", ProductList_id_from_name(name), qty, expiry_date,
              Storage_restock_by_name(warehouse, strategy, list, name, qty, expiry_date))

StorageRemoveStock(id, qty) ==
  StorageCall("remove_stock", id, qty, NoDate, Storage_remove_stock(warehouse, list, id, qty))

EmptyStock(id) ==
  StorageCall("empty_stock", id, 0, NoDate, Storage_empty_stock(warehouse, list, id))

NextStorage ==
  \/ \E id \in ProductIds, qty \in 1..MaxQty, expiry_date \in {NoDate} \cup Dates :
       calls < MaxStorageOps /\ RestockProduct(id, qty, expiry_date)
  \/ \E name \in Names, qty \in 1..MaxQty, expiry_date \in {NoDate} \cup Dates :
       calls < MaxStorageOps /\ RestockByName(name, qty, expiry_date)
  \/ \E id \in ProductIds, qty \in 1..MaxQty :
       calls < MaxStorageOps /\ StorageRemoveStock(id, qty)
  \/ \E id \in ProductIds : calls < MaxStorageOps /\ EmptyStock(id)

SpecStorage == Init /\ [][NextStorage]_vars

\* ------------------------------------------------------------------ reading the state
LevelIds == (1..NumRows) \X (1..NumShelves) \X (1..NumLevels)
Places == (1..NumRows) \X (1..NumShelves) \X (1..NumLevels) \X (1..NumZones)
LevelAt(wh, c) == wh.rows[c[1]].shelves[c[2]].levels[c[3]]
ZoneAt(wh, p) == wh.rows[p[1]].shelves[p[2]].levels[p[3]].zones[p[4]]

\* The places whose zone carries the payload of an instance of id.
InstancesOf(wh, id) == {p \in Places : ZoneAt(wh, p).item.id = id}
\* The places whose zone resolves to an instance of id: its payload zone and its span.
HeldBy(wh, id) == {p \in Places : Level_item(LevelAt(wh, p), p[4]).id = id}
DatesOf(wh, id) == {ZoneAt(wh, p).item.expiry_date : p \in InstancesOf(wh, id)}

Occupied(level) == Cardinality({z \in 1..Len(level.zones) : ~Zone_is_empty(level.zones[z])})
OccupiedInShelf(shelf) == SumSeq([l \in 1..Len(shelf.levels) |-> Occupied(shelf.levels[l])])
OccupiedInRow(row) == SumSeq([s \in 1..Len(row.shelves) |-> OccupiedInShelf(row.shelves[s])])
OccupiedIn(wh) == SumSeq([r \in 1..Len(wh.rows) |-> OccupiedInRow(wh.rows[r])])

OversizedIds == {id \in ProductIds : IsOversized(quality(id))}
FragileIds == {id \in ProductIds : IsFragile(quality(id))}

\* ------------------------------------------------------------------ capacity
Conserved(wh) ==
  /\ wh.available_space = Warehouse_check_capacity(wh) - OccupiedIn(wh)
  /\ \A r \in 1..Len(wh.rows) :
       LET row == wh.rows[r] IN
       /\ row.available_space = Row_check_capacity(row) - OccupiedInRow(row)
       /\ \A s \in 1..Len(row.shelves) :
            LET shelf == row.shelves[s] IN
            /\ shelf.available_space = Shelf_check_capacity(shelf) - OccupiedInShelf(shelf)
            /\ \A l \in 1..Len(shelf.levels) :
                 shelf.levels[l].available_space
                   = Level_check_capacity(shelf.levels[l]) - Occupied(shelf.levels[l])

\* C1: capacity conservation. After any sequence of restocks and removals that
\* returned, the available_space of every Level, Shelf and Row and of the Warehouse
\* is the number of zones of its subtree minus the number of occupied zones of its
\* subtree.
CapacityConservation == ~Stopped => Conserved(warehouse)

\* ------------------------------------------------------------------ occupancy
\* C2: no double occupancy. A placement that succeeds has not written to a zone
\* that held an occupant: after a restock that returned Ok every zone that was
\* occupied before the call is as it was.
NoDoubleOccupancy ==
  [][(last'.op = "restock" /\ last'.res = "Ok")
     => \A p \in Places : ~Zone_is_empty(ZoneAt(warehouse, p))
                            => ZoneAt(warehouse', p) = ZoneAt(warehouse, p)]_vars

\* ------------------------------------------------------------------ spans
SpanOk(level, s) ==
  LET e == level.zones[s].end
      item == level.zones[s].item
  IN /\ e - s + 1 = item.zones_required
     /\ e <= Len(level.zones)
     /\ \A i \in (s + 1)..(e - 1) : level.zones[i] = ProductPart(s, e)
     /\ level.zones[e] = ProductEnd(s)
     /\ \A i \in s..e : Level_item(level, i) = item

\* C3: span integrity. In every state a call returned in, for every zone s holding
\* ProductStart(item, e): e - s + 1 = item.zones_required, the zones strictly
\* between s and e hold ProductPart(s, e), zone e holds ProductEnd(s), and the
\* lookup of any zone of s..e returns that item.
SpanIntegrity ==
  ~Stopped => \A p \in Places :
                ZoneAt(warehouse, p).kind = "ProductStart" => SpanOk(LevelAt(warehouse, p), p[4])

SpansInLevel(wh) ==
  \A p \in Places :
    LET zone == ZoneAt(wh, p)
        zones == Len(LevelAt(wh, p).zones)
    IN /\ zone.kind = "ProductStart" =>
            /\ p[4] < zone.end
            /\ zone.end <= zones
            /\ p[4] + zone.item.zones_required - 1 <= zones
       /\ zone.kind = "ProductPart" =>
            (1 <= zone.start /\ zone.start < p[4] /\ p[4] < zone.end /\ zone.end <= zones)
       /\ zone.kind = "ProductEnd" => (1 <= zone.start /\ zone.start < p[4])

ItemOf(id, place, expiry_date) ==
  [id |-> id, placement |-> place, zones_required |-> quality(id).zones_required,
   expiry_date |-> expiry_date]

\* Level::add_oversized_item at a start zone z whose span z..z+N-1 ends after the
\* last zone of the level: an error, and the level as it was.
OverrunRejected(wh) ==
  \A c \in LevelIds, id \in OversizedIds, z \in 1..(NumZones + 1) :
    LET level == LevelAt(wh, c)
        Rejected(r) == r.res \in {"InsufficientSpace", "ZoneNotFound"} /\ r.level = level
    IN z + quality(id).zones_required - 1 > Len(level.zones)
       => Rejected(Level_add_oversized_item(level, z,
                                            ItemOf(id, <<c[1], c[2], c[3], z>>, NoDate)))

\* C4: spans never cross a level boundary. In every reachable state, under every
\* strategy, the zones a span names (its start, its end, the start and end its
\* parts point to) are zones of the level the span sits in, a start zone plus
\* zones_required stays within the level, and an oversized placement on any
\* reachable level at a start zone z with z + zones_required - 1 beyond the last
\* zone returns an error and leaves the level as it was.
SpansStayInLevel == SpansInLevel(warehouse) /\ OverrunRejected(warehouse)

\* An oversized restock returned Ok, its instances are placed, and a placement on the
\* last zone of a level holding one of them is refused.
SpanPlacedAndOverrunRefused ==
  /\ last.op = "restock" /\ last.res = "Ok" /\ last.id \in OversizedIds
  /\ \E p \in InstancesOf(warehouse, last.id) :
       Level_add_oversized_item(LevelAt(warehouse, p), NumZones,
                                ItemOf(last.id, <<p[1], p[2], p[3], NumZones>>, NoDate)).res
         = "InsufficientSpace"

\* ------------------------------------------------------------------ fragility
Ceiling(wh) ==
  \A p \in Places :
    ZoneAt(wh, p).item.id \in FragileIds => p[3] <= quality(ZoneAt(wh, p).item.id).max_level

\* ProductItem::new of a fragile product at a level above its ceiling, for each of
\* the given expiry dates.
TooHigh(dates) ==
  \A id \in FragileIds, p \in Places, d \in dates :
    p[3] > quality(id).max_level => ProductItem_new(id, list, p, d).res = "LevelTooHigh"

\* C5, as amended: after any sequence of restocks and removals under any strategy
\* no instance of a product of quality Fragile(m) or OversizedAndFragile(_, m) sits
\* at a level above m, and creating an instance that carries an expiry date at a
\* level above m fails with LevelTooHigh; without an expiry date the creation fails
\* with FragileObjectWithoutExpiration, whatever the level.
FragilityCeiling ==
  /\ Ceiling(warehouse)
  /\ TooHigh(Dates)
  /\ \A id \in FragileIds, p \in Places :
       ProductItem_new(id, list, p, NoDate).res = "FragileObjectWithoutExpiration"

\* C5, as stated: the ceiling, and creating an instance at a level above m fails with
\* LevelTooHigh, with or without an expiry date.
FragilityCeilingAnyDate == Ceiling(warehouse) /\ TooHigh(Dates \cup {NoDate})

\* A fragile instance is placed and a restock has just failed with LevelTooHigh.
CeilingReached ==
  /\ last.op = "restock" /\ last.res = "LevelTooHigh"
  /\ \E id \in FragileIds : InstancesOf(warehouse, id) # {}

\* C6: restocking qty >= 1 units of a Fragile or OversizedAndFragile product without
\* an expiry date fails with FragileObjectWithoutExpiration under every strategy and
\* changes no zone, no available_space counter and no catalog quantity.
UndatedFragileRestockFails ==
  [][(last'.op = "restock" /\ last'.id \in FragileIds /\ last'.expiry_date = NoDate)
     => /\ last'.res = "FragileObjectWithoutExpiration"
        /\ warehouse' = warehouse
        /\ list' = list]_vars

\* ------------------------------------------------------------------ removal order
DateAt(wh, p) == DateKey(ZoneAt(wh, p).item)

\* The call removed qty instances of id and none of them expires later than one that
\* remains; an instance without a date counts as the latest.
Fefo(before, after, id, qty) ==
  LET removed == InstancesOf(before, id) \ InstancesOf(after, id)
      remaining == InstancesOf(after, id)
  IN /\ remaining \subseteq InstancesOf(before, id)
     /\ Cardinality(removed) = qty
     /\ \A x \in removed, y \in remaining : DateAt(before, x) <= DateAt(after, y)

\* C7: FEFO removal. With batches of one product restocked one after the other,
\* each restock returning Ok and every instance dated, remove_stock(id, q) with q
\* not larger than the number of instances returns Ok and removes q instances, none
\* of them with a later expiry date than an instance that remains.
FefoRemoval ==
  [][(/\ last'.op = "remove_stock"
      /\ NoDate \notin DatesOf(warehouse, last'.id)
      /\ last'.qty <= Cardinality(InstancesOf(warehouse, last'.id)))
     => (last'.res = "Ok" /\ Fefo(warehouse, warehouse', last'.id, last'.qty))]_vars

\* Two batches of MaxQty instances were restocked, remove_stock(id, MaxQty) returned
\* Ok, and what remains is MaxQty instances, every one dated 2022-12-31.
LaterBatchRemains ==
  /\ calls = 3 /\ last.op = "remove_stock" /\ last.res = "Ok" /\ last.qty = MaxQty
  /\ list[last.id] = 2 * MaxQty
  /\ Cardinality(InstancesOf(warehouse, last.id)) = MaxQty
  /\ DatesOf(warehouse, last.id) = {20221231}

\* C8: FEFO with undated instances. If at least one instance of the product carries
\* an expiry date, wherever it sits, remove_stock(id, q) with q not larger than the
\* number of instances removes the dated instances in ascending date order before
\* any instance without a date.
FefoWithUndated ==
  [][(/\ last'.op = "remove_stock"
      /\ DatesOf(warehouse, last'.id) \ {NoDate} # {}
      /\ last'.qty <= Cardinality(InstancesOf(warehouse, last'.id)))
     => (last'.res = "Ok" /\ Fefo(warehouse, warehouse', last'.id, last'.qty))]_vars

\* ------------------------------------------------------------------ removal errors
\* C9: remove_stock(id, qty) returns InsufficientStock whenever fewer than qty
\* instances of id are placed, none at all included; it never crashes.
RemoveStockInsufficient ==
  [][(last'.op = "remove_stock" /\ Cardinality(InstancesOf(warehouse, last'.id)) < last'.qty)
     => last'.res = "InsufficientStock"]_vars

\* C10: remove_all_stock(id) completes whether id has many, one or no placed
\* instances; afterwards no instance of id remains, every zone it occupied is
\* vacant and the zones of every other product are as before.
RemoveAllStockCompletes ==
  [][last'.op = "remove_all_stock"
     => /\ last'.res = "Ok"
        /\ InstancesOf(warehouse', last'.id) = {}
        /\ \A p \in HeldBy(warehouse, last'.id) : ZoneAt(warehouse', p) = Vacant
        /\ \A p \in Places \ HeldBy(warehouse, last'.id) :
             ZoneAt(warehouse', p) = ZoneAt(warehouse, p)]_vars

\* ------------------------------------------------------------------ filling from empty
NormalIds == {id \in ProductIds : quality(id).tag = "Normal"}

\* The rank of a place in row-major, shelf-major, level-major, zone-major order,
\* (1,1,1,1) having rank 1.
FlatIndex(p) ==
  (((p[1] - 1) * NumShelves + (p[2] - 1)) * NumLevels + (p[3] - 1)) * NumZones + p[4]

\* Instances of id sit in exactly the first qty zones, one in each, and every other
\* zone is vacant.
FirstFilled(wh, id, qty) ==
  \A p \in Places : IF FlatIndex(p) <= qty
                    THEN ZoneAt(wh, p).kind = "WholeProduct" /\ ZoneAt(wh, p).item.id = id
                    ELSE Zone_is_empty(ZoneAt(wh, p))

\* The first call was a restock of a Normal product under the given strategy.
NormalFromEmpty(strat) ==
  calls = 1 /\ strategy = strat /\ last.op = "restock" /\ last.id \in NormalIds

\* C11: Contiguous restock from empty. Under Contiguous, restocking qty units of a
\* Normal product into the empty warehouse returns Ok for every qty from 1 up to
\* the number of zones, and the instances occupy exactly the first qty zones in
\* row-major, shelf-major, level-major, zone-major order, with no gap.
ContiguousFromEmpty ==
  (NormalFromEmpty("Contiguous") /\ last.qty <= Capacity)
    => (last.res = "Ok" /\ FirstFilled(warehouse, last.id, last.qty))

\* The place whose position in the flat map (rows, shelves, levels, zones) is i.
PlaceAt(i) == CHOOSE p \in Places : FlatIndex(p) = i

\* Positions i .. i + qty - 1 of the flat map of wh are all vacant.
VacantRun(wh, i, qty) ==
  /\ i + qty - 1 <= Capacity
  /\ \A k \in i..(i + qty - 1) : Zone_is_empty(ZoneAt(wh, PlaceAt(k)))

HasRun(wh, qty) == \E i \in 1..Capacity : VacantRun(wh, i, qty)

LeftmostRun(wh, qty) ==
  CHOOSE i \in 1..Capacity : VacantRun(wh, i, qty) /\ \A j \in 1..(i - 1) : ~VacantRun(wh, j, qty)

\* The restock put qty whole instances of id on positions from .. from + qty - 1
\* and left every other zone as it was.
FilledFrom(before, after, id, qty, from) ==
  \A p \in Places :
    IF FlatIndex(p) \in from..(from + qty - 1)
    THEN ZoneAt(after, p).kind = "WholeProduct" /\ ZoneAt(after, p).item.id = id
    ELSE ZoneAt(after, p) = ZoneAt(before, p)

NormalRestock(strat) == strategy = strat /\ last'.op = "restock" /\ last'.id \in NormalIds

\* C12: Contiguous placement in an arbitrary state. Whenever the flat map holds a
\* run of at least qty vacant zones, a Contiguous restock of qty instances of a
\* Normal product returns Ok and occupies exactly the first qty zones of the
\* leftmost such run, wherever that run begins.
ContiguousLeftmostRun ==
  [][(NormalRestock("Contiguous") /\ HasRun(warehouse, last'.qty))
       => (/\ last'.res = "Ok"
           /\ FilledFrom(warehouse, warehouse', last'.id, last'.qty,
                         LeftmostRun(warehouse, last'.qty)))]_vars

SpansLaidOut(wh, id, qty) ==
  /\ Cardinality(InstancesOf(wh, id)) = qty
  /\ \A p \in InstancesOf(wh, id) :
       ZoneAt(wh, p).kind = "ProductStart" /\ SpanOk(LevelAt(wh, p), p[4])
  /\ Cardinality(HeldBy(wh, id)) = qty * quality(id).zones_required

OversizedFromEmptyCase ==
  /\ calls = 1 /\ last.op = "restock" /\ quality(last.id).tag = "Oversized"
  /\ last.qty <= Warehouse_check_oversized_capacity(warehouse, quality(last.id).zones_required)

\* C14: oversized restock from empty. Under each of the three strategies, a
\* restock of q instances of an Oversized(N) product into the empty warehouse
\* returns Ok for every q up to the oversized capacity check_oversized_capacity
\* reports, and afterwards each instance occupies N consecutive zones of one
\* level and no zone belongs to two instances.
OversizedFromEmpty ==
  OversizedFromEmptyCase
    => (last.res = "Ok" /\ SpansLaidOut(warehouse, last.id, last.qty))

\* The position in the flat map of the last occupied zone; 0 in an empty warehouse.
LastOccupied(wh) ==
  LET taken == {FlatIndex(p) : p \in {q \in Places : ~Zone_is_empty(ZoneAt(wh, q))}}
  IN IF taken = {} THEN 0 ELSE CHOOSE i \in taken : \A j \in taken : j <= i

\* C15: RoundRobin continuation. For a Normal product and a warehouse that is
\* neither empty nor full, with room for the batch after the last occupied zone,
\* a RoundRobin restock returns Ok, places its first instance in the zone
\* immediately after the last occupied zone in flat-map order and the following
\* instances in the zones after that one.
RoundRobinContinuation ==
  [][(/\ NormalRestock("RoundRobin")
      /\ LastOccupied(warehouse) > 0
      /\ LastOccupied(warehouse) + last'.qty <= Capacity)
       => (/\ last'.res = "Ok"
           /\ FilledFrom(warehouse, warehouse', last'.id, last'.qty,
                         LastOccupied(warehouse) + 1))]_vars

FromEmpty(strat) == calls = 1 /\ strategy = strat /\ last.op = "restock"

\* The zone at the first coordinate carries an instance of id placed there.
StartsAtFirst(wh, id) ==
  /\ ZoneAt(wh, <<1, 1, 1, 1>>).item.id = id
  /\ ZoneAt(wh, <<1, 1, 1, 1>>).item.placement = <<1, 1, 1, 1>>

\* C16: RoundRobin from empty. A RoundRobin restock into the empty warehouse that
\* returns Ok has put its first instance at (1,1,1,1), for normal and oversized
\* products alike; for a Normal product it returns Ok for every qty from 1 to the
\* total zone count and fills the first qty zones in flat-map order.
RoundRobinFromEmpty ==
  FromEmpty("RoundRobin")
    => /\ last.res = "Ok" => StartsAtFirst(warehouse, last.id)
       /\ (last.id \in NormalIds /\ last.qty <= Capacity)
            => (last.res = "Ok" /\ FirstFilled(warehouse, last.id, last.qty))

\* One RoundRobin restock filled every zone of the empty warehouse.
RoundRobinFilledAll ==
  /\ FromEmpty("RoundRobin") /\ last.id \in NormalIds /\ last.qty = Capacity
  /\ last.res = "Ok" /\ OccupiedIn(warehouse) = Capacity

\* C17: RoundRobin on a full warehouse. A RoundRobin restock of qty >= 1 into a
\* warehouse with no vacant zone fails with InsufficientSpace.
RoundRobinFull ==
  [][(strategy = "RoundRobin" /\ last'.op = "restock" /\ ~HasRun(warehouse, 1))
       => last'.res = "InsufficientSpace"]_vars

\* The flat-map position at which the span after the last occupied zone starts:
\* the next zone when n zones are left in that level, else the first zone of the
\* next level.
NextSpanStart(wh, n) ==
  LET at == LastOccupied(wh)
      zone == PlaceAt(at)[4]
  IN IF zone + n <= NumZones THEN at + 1 ELSE at - zone + NumZones + 1

\* The number of spans of n zones that fit after the last occupied zone.
SpansLeft(wh, n) ==
  LET at == LastOccupied(wh)
      zone == PlaceAt(at)[4]
  IN ((NumZones - zone) \div n) + ((Capacity - (at - zone + NumZones)) \div NumZones) * (NumZones \div n)

\* C18: RoundRobin continuation for oversized products. When the last occupied
\* zone of the warehouse ends an oversized block and the levels after it have
\* room for the batch, a RoundRobin restock of an Oversized(N) product returns Ok
\* and its first new span starts immediately after that block.
RoundRobinOversizedContinuation ==
  [][(/\ strategy = "RoundRobin" /\ last'.op = "restock"
      /\ quality(last'.id).tag = "Oversized"
      /\ LastOccupied(warehouse) > 0
      /\ ZoneAt(warehouse, PlaceAt(LastOccupied(warehouse))).kind = "ProductEnd"
      /\ last'.qty <= SpansLeft(warehouse, quality(last'.id).zones_required))
       => (/\ last'.res = "Ok"
           /\ ZoneAt(warehouse', PlaceAt(NextSpanStart(warehouse,
                                         quality(last'.id).zones_required))).item.id
                = last'.id)]_vars

\* The zones of wh at which an instance of id may start: the zones_required zones
\* from there on are vacant zones of one level, at or below the product's ceiling.
UsableStarts(wh, id) ==
  LET n == quality(id).zones_required
  IN {p \in Places :
        /\ p[4] + n - 1 <= NumZones
        /\ \A k \in 0..(n - 1) : Zone_is_empty(ZoneAt(wh, <<p[1], p[2], p[3], p[4] + k>>))
        /\ (Product_max_level(id) = NoLevel \/ p[3] <= Product_max_level(id))}

\* p comes before q: smaller row + shelf, then smaller row, then level, then zone.
CloserToStart(p, q) ==
  LET Key(x) == <<x[1] + x[2], x[1], x[3], x[4]>>
      Less(a, b) == \E k \in 1..4 : a[k] < b[k] /\ \A j \in 1..(k - 1) : a[j] = b[j]
  IN p = q \/ Less(Key(p), Key(q))

\* Spans of n zones starting at p and at q share a zone.
Clash(p, q, n) ==
  <<p[1], p[2], p[3]>> = <<q[1], q[2], q[3]>> /\ q[4] > p[4] - n /\ q[4] < p[4] + n

\* The starts in placed are the ones a batch gets when each instance in turn takes
\* the closest usable start left: no usable start passed over comes before a
\* chosen one, unless an earlier chosen span already covers part of it.
ClosestFirst(placed, usable, n) ==
  /\ placed \subseteq usable
  /\ \A p \in placed, q \in placed : p = q \/ ~Clash(p, q, n)
  /\ \A q \in usable \ placed :
       \/ \A p \in placed : CloserToStart(p, q)
       \/ \E p \in placed : CloserToStart(p, q) /\ Clash(p, q, n)

\* The instances the call placed stand on the closest usable starts.
PlacedClosest(before, after, id) ==
  ClosestFirst({p \in Places : ZoneAt(after, p) # ZoneAt(before, p)
                                 /\ ZoneAt(after, p).item.id = id},
               UsableStarts(before, id), quality(id).zones_required)

\* C19: ClosestToStart ordering. Every instance a ClosestToStart restock places
\* goes to the shelf that, among the shelves with a usable vacancy at that moment,
\* has the smallest row + shelf (the smaller row on a tie), at that shelf's first
\* usable vacant zone in level-major, zone-major order.
ClosestToStartOrdering ==
  [][(strategy = "ClosestToStart" /\ last'.op = "restock")
       => PlacedClosest(warehouse, warehouse', last'.id)]_vars

\* One ClosestToStart restock went through shelf (1,1), then (1,2), then into (2,1).
ThirdShelfReached ==
  /\ strategy = "ClosestToStart" /\ last.op = "restock" /\ last.res = "Ok" /\ calls = 1
  /\ ~Zone_is_empty(ZoneAt(warehouse, <<1, 2, NumLevels, 1>>))
  /\ ~Zone_is_empty(ZoneAt(warehouse, <<2, 1, 1, 1>>))
  /\ Zone_is_empty(ZoneAt(warehouse, <<2, 1, NumLevels, NumZones>>))

\* C20: ClosestToStart completeness. A ClosestToStart restock of qty instances of
\* a Normal product returns Ok whenever at least qty zones are vacant, whichever
\* shelves hold them, the last shelf of the last row included.
ClosestToStartCompleteness ==
  [][(NormalRestock("ClosestToStart") /\ Capacity - OccupiedIn(warehouse) >= last'.qty)
       => last'.res = "Ok"]_vars

\* C21: termination. Every restock, remove_stock and remove_all_stock call comes
\* to an end, from every reachable state and under every strategy: no call is
\* caught in a search loop that never ends.
EveryCallEnds == last.res # "Hang"

\* C22: exhaustion. Under every strategy a restock whose qty exceeds the number
\* of vacant zones returns InsufficientSpace: it neither reports success nor
\* crashes.
ExhaustionRefused ==
  [][(last'.op = "restock" /\ last'.qty > Capacity - OccupiedIn(warehouse))
       => last'.res = "InsufficientSpace"]_vars

\* Every available_space counter fell by the number of zones that became occupied
\* in its subtree between the two states.
CountersFollow(before, after) ==
  /\ before.available_space - after.available_space = OccupiedIn(after) - OccupiedIn(before)
  /\ \A r \in 1..NumRows :
       /\ before.rows[r].available_space - after.rows[r].available_space
            = OccupiedInRow(after.rows[r]) - OccupiedInRow(before.rows[r])
       /\ \A s \in 1..NumShelves :
            /\ before.rows[r].shelves[s].available_space
                 - after.rows[r].shelves[s].available_space
                 = OccupiedInShelf(after.rows[r].shelves[s])
                     - OccupiedInShelf(before.rows[r].shelves[s])
            /\ \A l \in 1..NumLevels :
                 LevelAt(before, <<r, s, l>>).available_space
                   - LevelAt(after, <<r, s, l>>).available_space
                   = Occupied(LevelAt(after, <<r, s, l>>)) - Occupied(LevelAt(before, <<r, s, l>>))

\* The zones the call changed were vacant and now hold instances of id placed there.
PlacedStay(before, after, id) ==
  \A p \in Places :
    ZoneAt(after, p) # ZoneAt(before, p)
      => /\ Zone_is_empty(ZoneAt(before, p))
         /\ Level_item(LevelAt(after, p), p[4]).id = id

Failed(res) == res \notin {"Ok", "Panic", "Hang"}

\* C23: non-atomic batch. When a restock returns a failure after placing the
\* first instances of its batch, those instances remain placed on zones that were
\* vacant, and every available_space counter reflects exactly those placements.
PartialBatchKept ==
  [][(last'.op = "restock" /\ Failed(last'.res) /\ warehouse' # warehouse)
       => (/\ PlacedStay(warehouse, warehouse', last'.id)
           /\ CountersFollow(warehouse, warehouse'))]_vars

\* C24: EndOfRows. A sequential fill that starts at the first coordinate of the
\* empty warehouse (RoundRobin) with more instances of a product without a level
\* ceiling than the warehouse has room for passes the last shelf of the last row
\* with quantity left; the call then returns the EndOfRows failure.
EndOfRowsReturned ==
  [][(/\ strategy = "RoundRobin" /\ last'.op = "restock"
      /\ Warehouse_is_empty(warehouse)
      /\ Product_max_level(last'.id) = NoLevel
      /\ last'.qty > Warehouse_check_oversized_capacity(
                       warehouse, quality(last'.id).zones_required))
       => last'.res = "EndOfRows"]_vars

\* C25: catalog quantity on restock. A successful restock of qty units through
\* the storage front end, by id and by name alike, raises the catalog quantity of
\* the product by exactly qty and leaves the other quantities alone.
RestockRaisesQuantity ==
  [][(last'.op \in {"restock_product", "restock_by_name"} /\ last'.res = "Ok")
       => list' = [list EXCEPT ![last'.id] = @ + last'.qty]]_vars

\* The zones that carry an instance of id after the call and did not before.
NewlyPlaced(before, after, id) ==
  {p \in Places : ZoneAt(after, p) # ZoneAt(before, p) /\ ZoneAt(after, p).item.id = id}

\* C26: catalog quantity on a failed zone write. When a restock fails on the
\* write of an instance into its zone (ZoneOccupied, ZoneNotFound or a fit
\* failure), the catalog quantity of the product has grown by exactly the number
\* of instances the call placed.
FailedWriteNotCounted ==
  [][(/\ last'.op = "restock"
      /\ last'.res \in {"ZoneOccupied", "ZoneNotFound", "InsufficientSpace"})
       => list' = [list EXCEPT ![last'.id] =
                     @ + Cardinality(NewlyPlaced(warehouse, warehouse', last'.id))]]_vars

\* Coordinates around the tree: every component from one below the first number
\* to one above the last.
Coords == (0..(NumRows + 1)) \X (0..(NumShelves + 1)) \X (0..(NumLevels + 1)) \X (0..(NumZones + 1))

\* The failure the first missing component of a coordinate calls for; "Ok" when the
\* coordinate names a zone of the warehouse.
NotFound(c) ==
  IF c[1] \notin 1..NumRows THEN "RowNotFound"
  ELSE IF c[2] \notin 1..NumShelves THEN "ShelfNotFound"
  ELSE IF c[3] \notin 1..NumLevels THEN "LevelNotFound"
  ELSE IF c[4] \notin 1..NumZones THEN "ZoneNotFound"
  ELSE "Ok"

\* The add of an instance of id at c through the Warehouse entry point.
AddAt(wh, c, id) ==
  IF IsOversized(quality(id))
  THEN Warehouse_add_oversized_item(wh, c[1], c[2], c[3], c[4], ItemOf(id, c, NoDate))
  ELSE Warehouse_add_item(wh, c[1], c[2], c[3], c[4], ItemOf(id, c, NoDate))

AddRefused(wh, c, id) ==
  LET Refused(r) == r.res = NotFound(c) /\ r.wh = wh
  IN Refused(AddAt(wh, c, id))

\* C27: add_item error contract. In every reachable warehouse an add, normal or
\* oversized, at a coordinate whose row, shelf, level or zone does not exist fails
\* with RowNotFound, ShelfNotFound, LevelNotFound or ZoneNotFound respectively
\* and changes no zone and no available_space counter.
AddItemErrorContract ==
  \A c \in Coords, id \in {Apple, Watermelon} :
    NotFound(c) # "Ok" => AddRefused(warehouse, c, id)

\* The failure remove_item owes for the zone at p: ZoneEmpty on a vacant zone,
\* CannotRemovePart on an interior or ending fragment of a span, "Ok" otherwise.
RemoveRefusal(wh, p) ==
  CASE ZoneAt(wh, p).kind = "None" -> "ZoneEmpty"
    [] ZoneAt(wh, p).kind \in {"ProductPart", "ProductEnd"} -> "CannotRemovePart"
    [] OTHER -> "Ok"

RemoveRefusedAt(wh, p) ==
  LET InLevel(r) == r.res = RemoveRefusal(wh, p) /\ r.level = LevelAt(wh, p)
      InWarehouse(r) == r.res = RemoveRefusal(wh, p) /\ r.wh = wh
  IN /\ InLevel(Level_remove_item(LevelAt(wh, p), p[4]))
     /\ InWarehouse(Warehouse_remove_item(wh, p[1], p[2], p[3], p[4]))

\* C28: remove_item error contract. In every reachable warehouse remove_item on a
\* vacant zone fails with ZoneEmpty and remove_item on an interior or ending
\* fragment of a span fails with CannotRemovePart, at the Level and at the
\* Warehouse entry point, and the failed call changes nothing.
RemoveItemErrorContract ==
  \A p \in Places : RemoveRefusal(warehouse, p) # "Ok" => RemoveRefusedAt(warehouse, p)

\* The elements of a sequence.
Range(seq) == {seq[i] : i \in 1..Len(seq)}

\* The placed instances that carry an expiry date earlier than cutoff.
DatedBefore(wh, cutoff) ==
  {item \in Range(Warehouse_items(wh)) : item.expiry_date # NoDate /\ item.expiry_date < cutoff}

\* C29: expiry queries. In every reachable state and on every date, the expired
\* listing returns exactly the placed instances whose expiry date is earlier than
\* the date, and the expiring-within-N-days listing returns exactly those whose
\* expiry date is earlier than the date plus N days.
ExpiryListings ==
  \A today \in Today :
    /\ Range(Storage_list_expired_items(warehouse, today)) = DatedBefore(warehouse, today)
    /\ \A days \in 0..MaxDays :
         Range(Storage_list_expiring_items(warehouse, today, days))
           = DatedBefore(warehouse, AddDays(today, days))

\* The levels of the warehouse in flat order, and those of them that hold nothing.
LevelCoords == (1..NumRows) \X (1..NumShelves) \X (1..NumLevels)
LevelIndex(c) == ((c[1] - 1) * NumShelves + (c[2] - 1)) * NumLevels + c[3]
FreeLevels(wh) == {LevelIndex(c) : c \in {d \in LevelCoords : Occupied(LevelAt(wh, d)) = 0}}

\* qty levels in a row hold nothing.
EnoughFreeLevels(wh, qty) ==
  \E first \in 1..(NumRows * NumShelves * NumLevels) : first..(first + qty - 1) \subseteq FreeLevels(wh)

\* The zones a call has written.
Written(before, after) == {p \in Places : ZoneAt(after, p) # ZoneAt(before, p)}

\* A restock of an Oversized(N) product under Contiguous into a warehouse that
\* holds instances and has qty free levels in a row.
SecondOversizedRestock ==
  /\ strategy = "Contiguous" /\ ~Stopped
  /\ last'.op = "restock" /\ quality(last'.id).tag = "Oversized"
  /\ OccupiedIn(warehouse) > 0
  /\ EnoughFreeLevels(warehouse, last'.qty)

\* C30: oversized inverse mapping. Under Contiguous, a restock of an Oversized(N)
\* product into a warehouse that already holds instances and has enough free
\* levels returns Ok, and the zones it writes are qty spans of N zones that were
\* all vacant before the call.
OversizedInverseMapping ==
  [][SecondOversizedRestock
       => /\ last'.res = "Ok"
          /\ Cardinality(Written(warehouse, warehouse'))
               = last'.qty * quality(last'.id).zones_required
          /\ \A p \in Written(warehouse, warehouse') : Zone_is_empty(ZoneAt(warehouse, p))]_vars

\* C31: round-trip mapping. In every reachable state, for every occupied zone
\* with coordinate c whose character sits at index p of the warehouse flat-map,
\* flat_map_position_to_zone(p) returns c.
RoundTripMapping ==
  \A c \in Places :
    ~Zone_is_empty(ZoneAt(warehouse, c))
      => Warehouse_flat_map_position_to_zone(warehouse, FlatIndex(c) - 1) = c

\* The maximal runs of consecutive vacant zones of a level, as <<first, last>>.
VacantRuns(level) ==
  LET Z == Len(level.zones)
      Vac(i) == Zone_is_empty(level.zones[i])
  IN {r \in (1..Z) \X (1..Z) :
        /\ r[1] <= r[2]
        /\ \A i \in r[1]..r[2] : Vac(i)
        /\ (r[1] = 1 \/ ~Vac(r[1] - 1))
        /\ (r[2] = Z \/ ~Vac(r[2] + 1))}

\* The number of '1' characters the encoding of a level must hold for spans of n
\* zones: one for every occupied zone and one for every marker block.
RECURSIVE SumOver(_, _)
SumOver(S, n) ==
  IF S = {} THEN 0
  ELSE LET r == CHOOSE x \in S : TRUE
       IN ((r[2] - r[1] + 1) \div n) + SumOver(S \ {r}, n)

OnesExpected(level, n) == Occupied(level) + SumOver(VacantRuns(level), n)

Ones(map) == Cardinality({i \in 1..Len(map) : map[i] = 1})

\* C32: oversized flat-map encoding. In every reachable state, for every level
\* and every N from 1 to the number of zones of the level, oversized_flat_map(N)
\* holds one marker block for every N vacant zones of each maximal vacant run
\* and one '1' for every occupied zone: the '1' characters of the map number the
\* occupied zones plus floor(k / N) for every maximal vacant run of k zones.
OversizedEncoding ==
  \A c \in LevelCoords : \A n \in 1..NumZones :
    Ones(Level_oversized_flat_map(LevelAt(warehouse, c), n))
      = OnesExpected(LevelAt(warehouse, c), n)

\* The coordinate a batch fill of id goes to after c: the next zone, then zone 1
\* of the next level up to the ceiling of id, then the next shelf, then the next
\* row. NoCoord after the last one.
Ceiling_of(id) == IF IsFragile(quality(id)) THEN quality(id).max_level ELSE NumLevels

FillSuccessor(c, id) ==
  IF c[4] < NumZones THEN <<c[1], c[2], c[3], c[4] + 1>>
  ELSE IF c[3] < Ceiling_of(id) THEN <<c[1], c[2], c[3] + 1, 1>>
  ELSE IF c[2] < NumShelves THEN <<c[1], c[2] + 1, 1, 1>>
  ELSE IF c[1] < NumRows THEN <<c[1] + 1, 1, 1, 1>>
  ELSE NoCoord

\* The coordinates of S follow one another in fill order from a single first one.
FillChain(S, id) ==
  Cardinality({p \in S : \A q \in S : FillSuccessor(q, id) # p}) <= 1

CounterAggregation ==
  ~Stopped =>
    /\ warehouse.available_space
         = SumSeq([r \in 1..Len(warehouse.rows) |-> warehouse.rows[r].available_space])
    /\ \A r \in 1..Len(warehouse.rows) :
         LET row == warehouse.rows[r] IN
         /\ row.available_space
              = SumSeq([s \in 1..Len(row.shelves) |-> row.shelves[s].available_space])
         /\ \A s \in 1..Len(row.shelves) :
              row.shelves[s].available_space
                = SumSeq([l \in 1..Len(row.shelves[s].levels) |->
                            row.shelves[s].levels[l].available_space])

\* remove_stock asks for more instances of a product than the n > 0 it has.
RemovesMoreThanPlaced ==
  /\ last'.op = "remove_stock"
  /\ Len(Warehouse_items_with_id(warehouse, last'.id)) > 0
  /\ Len(Warehouse_items_with_id(warehouse, last'.id)) < last'.qty

SpanOf(wh, p) ==
  {q \in Places : /\ q[1] = p[1] /\ q[2] = p[2] /\ q[3] = p[3]
                  /\ \/ q = p
                     \/ /\ ZoneAt(wh, q).kind \in {"ProductPart", "ProductEnd"}
                        /\ ZoneAt(wh, q).start = p[4]}

\* Removing the instance at p by the placement it records vacates its zones and
\* no other.
RemovedByPlacement(wh, p) ==
  LET Vacated(r) ==
        /\ r.res = "Ok"
        /\ \A q \in Places :
             IF q \in SpanOf(wh, p) THEN Zone_is_empty(ZoneAt(r.wh, q))
             ELSE ZoneAt(r.wh, q) = ZoneAt(wh, q)
      At(c) == Vacated(Warehouse_remove_item(wh, c[1], c[2], c[3], c[4]))
  IN At(ZoneAt(wh, p).item.placement)

\* C36: anchor coordinate. In every state reachable through restock and removal
\* calls, the placement recorded in each placed instance is the coordinate of
\* the zone that holds its payload, and removing the instance by that placement
\* vacates its zones and no other.
AnchorCoordinate ==
  ~Stopped =>
    \A p \in Places :
      ZoneAt(warehouse, p).kind \in {"WholeProduct", "ProductStart"}
        => /\ ZoneAt(warehouse, p).item.placement = p
           /\ RemovedByPlacement(warehouse, p)

\* Every occupied zone of the level resolves to an item, and every fragment names
\* a zone of the level that holds a ProductStart.
NoOrphans(level) ==
  \A i \in 1..Len(level.zones) :
    /\ ~Zone_is_empty(level.zones[i]) => Level_item(level, i) # NoItem
    /\ level.zones[i].kind \in {"ProductPart", "ProductEnd"}
         => /\ HasZone(level, level.zones[i].start)
            /\ level.zones[level.zones[i].start].kind = "ProductStart"

\* An instance of a product of quality Oversized(n), to be placed at c.
SpanItem(n, c) ==
  [id |-> Watermelon, placement |-> c, zones_required |-> n, expiry_date |-> NoDate]

\* The level after an oversized add of n zones at zone z that returned Ok has no orphans.
AddedWithoutOrphans(level, c, z, n) ==
  LET Sound(r) == r.res = "Ok" => NoOrphans(r.level)
  IN Sound(Level_add_oversized_item(level, z, SpanItem(n, <<c[1], c[2], c[3], z>>)))

\* C37: no orphan fragments. In every reachable state every occupied zone
\* resolves to an item and each ProductPart or ProductEnd names a start zone of
\* its level that holds a ProductStart; and an oversized add of any
\* zones_required from 1 to the size of the level leaves the level so.
NoOrphanFragments ==
  ~Stopped =>
    \A c \in LevelCoords :
      /\ NoOrphans(LevelAt(warehouse, c))
      /\ \A z \in 1..NumZones, n \in 1..NumZones :
           AddedWithoutOrphans(LevelAt(warehouse, c), c, z, n)

\* The span of n zones from zone z lies in the level and is vacant.
SpanFree(level, z, n) ==
  /\ 1 <= z /\ z + n - 1 <= Len(level.zones)
  /\ \A i \in z..(z + n - 1) : Zone_is_empty(level.zones[i])

OversizedAddSucceeds(level, c, z, n) ==
  Level_add_oversized_item(level, z, SpanItem(n, <<c[1], c[2], c[3], z>>)).res = "Ok"

\* C38: oversized fit check. In every reachable state, for every level, start
\* zone z and size N, add_oversized_item succeeds exactly when 1 <= z,
\* z + N - 1 <= Z and the zones z..z+N-1 are all vacant.
OversizedFitCheck ==
  ~Stopped =>
    \A c \in LevelCoords : \A z \in 0..(NumZones + 1), n \in 1..NumZones :
      OversizedAddSucceeds(LevelAt(warehouse, c), c, z, n) <=> SpanFree(LevelAt(warehouse, c), z, n)

\* C39: oversized item larger than a level. Under every strategy a restock of a
\* product whose zones_required exceeds the zones of a level returns
\* InsufficientSpace or NotEnoughZones and writes no zone.
LargerThanLevelRefused ==
  [][(last'.op = "restock" /\ last'.id = Crate)
       => /\ last'.res \in {"InsufficientSpace", "NotEnoughZones"}
          /\ \A p \in Places : ZoneAt(warehouse', p) = ZoneAt(warehouse, p)]_vars

\* C40: catalog deletion safety. In every state reached through the storage
\* operations, failing runs included, a product with an instance placed in the
\* warehouse has a catalog quantity above 0, delete_product_by_id of it fails
\* with HasStock, and the id of every placed instance is in the catalog.
CatalogDeletionSafety ==
  \A p \in Places :
    ZoneAt(warehouse, p).kind \in {"WholeProduct", "ProductStart"}
      => /\ ZoneAt(warehouse, p).item.id \in DOMAIN list
         /\ list[ZoneAt(warehouse, p).item.id] > 0
         /\ Storage_delete_product_by_id(list, ZoneAt(warehouse, p).item.id).res = "HasStock"

\* A storage call has failed and left instances of its product in the warehouse.
FailedRunLeftInstances ==
  /\ last.op \in {"restock_product", "restock_by_name", "remove_stock", "empty_stock"}
  /\ last.res \notin {"Ok", "Panic", "Hang"}
  /\ last.id \in ProductIds
  /\ InstancesOf(warehouse, last.id) # {}

====
